---------------------------- MODULE Spec2Model ----------------------------
(***************************************************************************)
(* Model of the web3-jsonrpc-gateway request pipeline: the per-backend     *)
(* routers (generic EVM / zkSync, Conflux, Reef), the wallet wrappers they *)
(* dispatch to, and the error marshalling of the response envelope.        *)
(***************************************************************************)
EXTENDS Integers, Sequences, FiniteSets, TLC

VARIABLES
    adapter,               \* which gateway binary is running
    cfg,                   \* the wrapper's tuning knobs, fixed by the constructor
    slots,                 \* the request handlers that may run (one per inbound request)
    reqs,                  \* slot -> the request being handled and the handler's position
    responses,             \* slot -> the envelopes written with res.status(200).json
    calls,                 \* slot -> the backend calls made on behalf of the request
    floating,              \* requests whose checkRollbacks promise was started and not awaited
    uncaught,              \* requests with a rejection that no handler caught
    lastKnownBlock,        \* RollbackState of the generic wrapper
    lastKnownEpochNumber,  \* RollbackState of the Conflux wrapper
    wallets,               \* the WalletSet: the managed addresses, in order
    chain,                 \* the backend: its head and the next nonce of every account
    cin,                   \* composeTransaction harness: the inputs
    cout                   \* composeTransaction harness: the outcome

vars == <<adapter, cfg, slots, reqs, responses, calls, floating, uncaught,
          lastKnownBlock, lastKnownEpochNumber, wallets, chain, cin, cout>>

-----------------------------------------------------------------------------
(* Bounds of the model.                                                      *)

MaxGas == 3          \* gas prices and gas limits range over 0..MaxGas
MaxId == 1           \* request ids range over 1..MaxId
MaxHead == 2         \* the backend's head ranges over 0..MaxHead
MaxNonce == 1        \* account nonces start in 0..MaxNonce
MaxLogs == 1         \* a receipt holds up to MaxLogs logs

-----------------------------------------------------------------------------
(* JavaScript values.  Every value is a record tagged with its type, so that *)
(* `undefined`, strings, numbers and objects stay distinguishable.           *)

Undefined == [t |-> "undefined"]
Null == [t |-> "null"]
\* A string.  `wrap` records what was built around the text s, the model having
\* no string concatenation: nothing, a pair of double quotes (`"${s}"`), or the
\* JSON text of an object one of whose members holds s.
Str(s) == [t |-> "string", s |-> s, wrap |-> "none"]
EmptyString == Str("")
Quoted(v) == [t |-> "string", s |-> v.s, wrap |-> "quotes"]
Bool(b) == [t |-> "boolean", b |-> b]
Num(n) == [t |-> "number", n |-> n]
\* A 0x-prefixed hex string holding the quantity n ("0x0" is a non-empty string).
Hex(n) == [t |-> "hex", n |-> n]
\* An address string, kept as its sequence of characters after "0x".
Addr(chars) == [t |-> "address", chars |-> chars]

\* JavaScript truthiness, as used by `if (x)`, `!x` and `a || b`.
Truthy(v) ==
    CASE v.t = "undefined" -> FALSE
      [] v.t = "null" -> FALSE
      [] v.t = "boolean" -> v.b
      [] v.t = "number" -> v.n # 0
      [] v.t = "string" -> v.s # "" \/ v.wrap # "none"
      [] OTHER -> TRUE

\* a || b
OrElse(a, b) == IF Truthy(a) THEN a ELSE b

\* BigNumber.from(x) for the quantities of the model.
BigNumberFrom(v) == v.n

LowerChar(c) ==
    CASE c = "A" -> "a"
      [] c = "B" -> "b"
      [] c = "C" -> "c"
      [] OTHER -> c

\* String.prototype.toLowerCase on an address string.
ToLowerCase(a) == Addr([i \in DOMAIN a.chars |-> LowerChar(a.chars[i])])

-----------------------------------------------------------------------------
(* Thrown values.  An exception is the object that reaches the router's      *)
(* catch clause; the members the router reads are code, reason, body,        *)
(* error.reason / error.body and data, plus its toString() and its           *)
(* JSON.stringify() text.                                                    *)

\* {code, message, data}: the `error` member of a JSON-RPC answer.
ErrorObj(code, message, data) ==
    [t |-> "object", code |-> code, message |-> message, data |-> data]

\* An object used as an exception body; the router reads its `error` member only.
BodyObj(error) == [t |-> "object", error |-> error]

\* A string holding the JSON text of obj.
JsonText(obj) == [t |-> "jsontext", obj |-> obj]

\* JSON.stringify of a plain object that has a member holding the text s.
JsonHolding(s) == [t |-> "string", s |-> s, wrap |-> "json"]

Exception(code, message, reason, body, error, data, str, json) ==
    [code |-> code, message |-> message, reason |-> reason, body |-> body,
     error |-> error, data |-> data, str |-> str, json |-> json]

\* throw { reason, body: { error: { code, message: reason } } }
GatewayThrow(code, reason) ==
    Exception(Undefined, Undefined, Str(reason),
              BodyObj(ErrorObj(Num(code), Str(reason), Undefined)),
              Undefined, Undefined, Str("[object Object]"), JsonHolding(reason))

\* throw { reason, body: { code, message: reason } }: a body with no `error` member
GatewayThrowNoErrorMember(reason) ==
    Exception(Undefined, Undefined, Str(reason), BodyObj(Undefined),
              Undefined, Undefined, Str("[object Object]"), JsonHolding(reason))

\* A TypeError raised by the JavaScript runtime: an Error with no code, whose own
\* properties are not enumerable (JSON.stringify gives "{}").
TypeError(what) ==
    Exception(Undefined, Str(what), Undefined, Undefined, Undefined, Undefined,
              Str(what), Str("{}"))

-----------------------------------------------------------------------------
(* The generic wrapper (WalletWrapper of lib/ethers).                        *)

\* provider.network.chainId of the backend the gateway is connected to.
ChainId == 1

\* Math.ceil(factor * 100), the factor being kept in thousandths.
CeilFactor(milli) == (milli + 9) \div 10

\* What the backend answers to a quantity request: a number, or a failure.
Answers == [ok : {TRUE}, n : 0..MaxGas] \cup {[ok |-> FALSE, n |-> 0]}

Outcome(value) == [ok |-> TRUE, value |-> value, exc |-> Undefined]
Throws(exc) == [ok |-> FALSE, value |-> Undefined, exc |-> exc]

\* getGasPrice without its threshold check.
getGasPrice_NoThreshold(c, ans) ==
    IF c.estimateGasPrice
    THEN IF ~ans.ok
         THEN Throws(GatewayThrow(-32099, "Unpredictable gas price"))
         ELSE Outcome((ans.n * CeilFactor(c.gasPriceFactor)) \div 100)
    ELSE Outcome(BigNumberFrom(Num(c.defaultGasPrice)))

\* getGasPrice rounding the scaled price up.
getGasPrice_RoundedUp(c, ans) ==
    IF c.estimateGasPrice
    THEN IF ~ans.ok
         THEN Throws(GatewayThrow(-32099, "Unpredictable gas price"))
         ELSE LET gasPrice == (ans.n * CeilFactor(c.gasPriceFactor) + 99) \div 100
              IN  IF gasPrice > BigNumberFrom(Num(c.defaultGasPrice))
                  THEN Throws(GatewayThrow(-32099,
                                  "Estimated gas price exceeds threshold"))
                  ELSE Outcome(gasPrice)
    ELSE Outcome(BigNumberFrom(Num(c.defaultGasPrice)))

\* WalletWrapper.getGasPrice with the backend answering `ans` when asked.
getGasPrice(c, ans) ==
    IF c.estimateGasPrice
    THEN IF ~ans.ok
         THEN Throws(GatewayThrow(-32099, "Unpredictable gas price"))
         ELSE LET gasPrice == (ans.n * CeilFactor(c.gasPriceFactor)) \div 100
              IN  IF gasPrice > BigNumberFrom(Num(c.defaultGasPrice))
                  THEN Throws(GatewayThrow(-32099,
                                  "Estimated gas price exceeds threshold"))
                  ELSE Outcome(gasPrice)
    ELSE Outcome(BigNumberFrom(Num(c.defaultGasPrice)))

\* WalletWrapper.getGasLimit with the backend answering `ans` to estimateGas(tx).
getGasLimit(c, ans) ==
    IF c.estimateGasLimit
    THEN IF ~ans.ok
         THEN Throws(GatewayThrow(-32099, "Unpredictable gas limit"))
         ELSE LET gasLimit == (ans.n * CeilFactor(c.gasLimitFactor)) \div 100
              IN  IF gasLimit > BigNumberFrom(Num(c.defaultGasLimit))
                  THEN Throws(GatewayThrow(-32099,
                                  "Estimated gas limit exceeds threshold"))
                  ELSE Outcome(gasLimit)
    ELSE Outcome(BigNumberFrom(Num(c.defaultGasLimit)))

\* The transaction object composeTransaction starts from.
BaseTx(c, params) ==
    [from |-> params.from, to |-> params.to, value |-> params.value,
     data |-> params.data, nonce |-> params.nonce,
     chainId |-> IF c.forceEIP155 THEN Num(ChainId) ELSE Undefined,
     type |-> IF c.forceType2Txs THEN Num(2) ELSE Undefined,
     gasPrice |-> Undefined, gasLimit |-> Undefined,
     maxFeePerGas |-> Undefined, maxPriorityFeePerGas |-> Undefined]

\* The gas-price step deriving the price whatever the params carry.
ComposeGasPrice_Derived(c, params, ans) ==
    LET r == getGasPrice(c, ans)
    IN  IF r.ok THEN Outcome(Hex(r.value)) ELSE r

\* "Complete tx gas price, if necessary": the outcome carries tx.gasPrice.
ComposeGasPrice(c, params, ans) ==
    IF Truthy(params.from) /\ ~Truthy(params.gasPrice)
    THEN LET r == getGasPrice(c, ans)
         IN  IF r.ok THEN Outcome(Hex(r.value)) ELSE r
    ELSE IF Truthy(params.gasPrice)
         THEN IF BigNumberFrom(params.gasPrice) > BigNumberFrom(Num(c.defaultGasPrice))
              THEN Throws(GatewayThrow(-32099, "Provided gas price exceeds threshold"))
              ELSE Outcome(params.gasPrice)
         ELSE Outcome(Undefined)

\* The gas-limit step taking only a supplied gas, never estimating or defaulting.
ComposeGasLimit_SuppliedOnly(c, params, ans) ==
    IF Truthy(params.gas)
    THEN IF BigNumberFrom(params.gas) > BigNumberFrom(Num(c.defaultGasLimit))
         THEN Throws(GatewayThrow(-32099, "Provided gas limit exceeds threshold"))
         ELSE Outcome(params.gas)
    ELSE Outcome(Undefined)

\* "Complete tx gas limit, if necessary": the outcome carries tx.gasLimit.
ComposeGasLimit(c, params, ans) ==
    IF Truthy(params.from) /\ ~Truthy(params.gas)
    THEN LET r == getGasLimit(c, ans)
         IN  IF r.ok THEN Outcome(Hex(r.value)) ELSE r
    ELSE IF Truthy(params.gas)
         THEN IF BigNumberFrom(params.gas) > BigNumberFrom(Num(c.defaultGasLimit))
              THEN Throws(GatewayThrow(-32099, "Provided gas limit exceeds threshold"))
              ELSE Outcome(params.gas)
         ELSE Outcome(Undefined)

\* Whether composeTransaction contacts the backend for the price / the limit.
AsksGasPrice(c, params) ==
    Truthy(params.from) /\ ~Truthy(params.gasPrice) /\ c.estimateGasPrice
AsksGasLimit(c, params) ==
    Truthy(params.from) /\ ~Truthy(params.gas) /\ c.estimateGasLimit

\* WalletWrapper.composeTransaction, the backend answering priceAns to
\* getGasPrice and limitAns to estimateGas when it is asked.
composeTransaction(c, params, priceAns, limitAns) ==
    LET gp == ComposeGasPrice(c, params, priceAns)
        gl == ComposeGasLimit(c, params, limitAns)
    IN  IF ~gp.ok THEN gp
        ELSE IF ~gl.ok THEN gl
        ELSE Outcome([BaseTx(c, params) EXCEPT
                 !.gasPrice = gp.value,
                 !.gasLimit = gl.value,
                 !.maxFeePerGas =
                     IF Truthy(params.maxFeePerGas) THEN params.maxFeePerGas
                     ELSE IF c.forceType2Txs THEN gp.value ELSE Undefined,
                 !.maxPriorityFeePerGas =
                     IF Truthy(params.maxPriorityFeePerGas)
                     THEN params.maxPriorityFeePerGas
                     ELSE IF c.forceType2Txs THEN gp.value ELSE Undefined])

\* An eth_estimateGas that composes the params as they came.
processEthEstimateGas_Echo(c, params, priceAns, limitAns) ==
    LET r == composeTransaction(c, params, priceAns, limitAns)
    IN  IF ~r.ok THEN r
        ELSE Outcome(OrElse(r.value.gasLimit, Num(c.defaultGasLimit)))

\* WalletWrapper.processEthEstimateGas: a supplied gas is blanked, the
\* transaction is composed and its gasLimit (or the default) is returned.
processEthEstimateGas(c, params, priceAns, limitAns) ==
    LET cleared == IF Truthy(params.gas)
                   THEN [params EXCEPT !.gas = EmptyString] ELSE params
        r == composeTransaction(c, cleared, priceAns, limitAns)
    IN  IF ~r.ok THEN r
        ELSE Outcome(OrElse(r.value.gasLimit, Num(c.defaultGasLimit)))

-----------------------------------------------------------------------------
(* The WalletSet and the inputs clients send.                                *)

\* The addresses derived from the seed phrase, then those of the private keys.
SeedWallets == <<Addr(<<"A", "b">>)>>
KeyWallets == <<Addr(<<"c", "A">>)>>
\* A wallet set loaded with the private-key wallets first.
BuildWalletSet_KeysFirst(seed, keys) == keys \o seed

BuildWalletSet(seed, keys) == seed \o keys

\* Addresses a client may name: managed ones in several letter cases, and one
\* that no wallet owns.
ClientAddresses ==
    {Addr(<<"A", "b">>), Addr(<<"a", "b">>), Addr(<<"A", "B">>),
     Addr(<<"c", "A">>), Addr(<<"b", "C">>)}

OptionalQuantities == {Undefined} \cup {Hex(n) : n \in 0..MaxGas}

\* The transaction objects of eth_sendTransaction, eth_call and eth_estimateGas.
TxParams ==
    [from : {Undefined, Addr(<<"a", "b">>), Addr(<<"b", "C">>)},
     to : {Addr(<<"c", "A">>)},
     value : {Undefined},
     data : {Str("0xd0")},
     nonce : {Undefined, Hex(0), Hex(1)},
     gas : OptionalQuantities,
     gasPrice : OptionalQuantities,
     maxFeePerGas : {Undefined, Hex(1)},
     maxPriorityFeePerGas : {Undefined, Hex(1)}]

\* The configurations of the generic wrapper the model runs under.
Configs ==
    [defaultGasPrice : {2}, defaultGasLimit : {2},
     estimateGasPrice : BOOLEAN, estimateGasLimit : BOOLEAN,
     gasPriceFactor : {1000, 1500}, gasLimitFactor : {1000, 1500},
     forceEIP155 : {TRUE}, forceType2Txs : BOOLEAN,
     interleaveBlocks : {0, 1}]

NoAnswer == [ok |-> FALSE, n |-> 0]

-----------------------------------------------------------------------------
(* composeTransaction on its own: the inputs are drawn in the initial state, *)
(* the operation is applied once.                                            *)

QuietRouter ==
    /\ adapter = "ethers"
    /\ slots = {}
    /\ reqs = <<>>
    /\ responses = <<>>
    /\ calls = <<>>
    /\ floating = {}
    /\ uncaught = {}
    /\ lastKnownBlock = 0
    /\ lastKnownEpochNumber = 0
    /\ wallets = BuildWalletSet(SeedWallets, KeyWallets)
    /\ chain = [head |-> 0, nonce |-> <<0, 0>>]

ComposeInit ==
    /\ QuietRouter
    /\ cfg \in {c \in Configs : c.interleaveBlocks = 0}
    /\ cin \in {i \in [method : {"eth_sendTransaction", "eth_call", "eth_estimateGas"},
                       params : TxParams, priceAns : Answers, limitAns : Answers] :
                  \* an answer nobody asks for is not drawn
                  /\ (i.params.maxPriorityFeePerGas = i.params.maxFeePerGas)
                  /\ (AsksGasPrice(cfg, i.params) \/ i.priceAns = NoAnswer)
                  /\ (cfg.estimateGasLimit \/ i.limitAns = NoAnswer)
                  /\ (Truthy(i.params.from) \/ i.limitAns = NoAnswer)}
    /\ cout = [state |-> "pending"]

\* processTransaction / processEthCall reach composeTransaction with the params.
ComposeForCallOrSend ==
    /\ cout.state = "pending"
    /\ cin.method \in {"eth_sendTransaction", "eth_call"}
    /\ cout' = [state |-> "composed",
                r |-> composeTransaction(cfg, cin.params, cin.priceAns, cin.limitAns)]
    /\ UNCHANGED <<adapter, cfg, slots, reqs, responses, calls, floating, uncaught,
                   lastKnownBlock, lastKnownEpochNumber, wallets, chain, cin>>

\* eth_estimateGas reaches it through processEthEstimateGas.
ComposeForEstimateGas ==
    /\ cout.state = "pending"
    /\ cin.method = "eth_estimateGas"
    /\ cout' = [state |-> "estimated",
                r |-> processEthEstimateGas(cfg, cin.params, cin.priceAns, cin.limitAns),
                tx |-> composeTransaction(cfg,
                          IF Truthy(cin.params.gas)
                          THEN [cin.params EXCEPT !.gas = EmptyString] ELSE cin.params,
                          cin.priceAns, cin.limitAns)]
    /\ UNCHANGED <<adapter, cfg, slots, reqs, responses, calls, floating, uncaught,
                   lastKnownBlock, lastKnownEpochNumber, wallets, chain, cin>>

\* A composed transaction read as TransactionParams: it names its limit
\* gasLimit, so params.gas is undefined.
AsParams(tx) ==
    [from |-> tx.from, to |-> tx.to, value |-> tx.value, data |-> tx.data,
     nonce |-> tx.nonce, gas |-> Undefined, gasPrice |-> tx.gasPrice,
     maxFeePerGas |-> tx.maxFeePerGas,
     maxPriorityFeePerGas |-> tx.maxPriorityFeePerGas]

\* The transaction composeTransaction returned is handed to it as params.
ComposeAgain ==
    /\ cout.state = "composed"
    /\ cout.r.ok
    /\ LET params == AsParams(cout.r.value)
       IN  \E pa \in Answers, la \in Answers :
             /\ AsksGasPrice(cfg, params) \/ pa = NoAnswer
             /\ AsksGasLimit(cfg, params) \/ la = NoAnswer
             /\ cout' = [state |-> "recomposed", r |-> cout.r,
                         again |-> composeTransaction(cfg, params, pa, la)]
    /\ UNCHANGED <<adapter, cfg, slots, reqs, responses, calls, floating, uncaught,
                   lastKnownBlock, lastKnownEpochNumber, wallets, chain, cin>>

ComposeNext == ComposeForCallOrSend \/ ComposeForEstimateGas \/ ComposeAgain

SpecCompose == ComposeInit /\ [][ComposeNext]_vars

\* The outcome of composeTransaction in the harness, once it has run.
Composed == IF cout.state = "estimated" THEN cout.tx ELSE cout.r
\* The params composeTransaction was given (eth_estimateGas blanks `gas`).
ComposedParams ==
    IF cin.method = "eth_estimateGas" /\ Truthy(cin.params.gas)
    THEN [cin.params EXCEPT !.gas = EmptyString] ELSE cin.params

Scaled(n, milli) == (n * CeilFactor(milli)) \div 100
IsThresholdError(exc, reason) ==
    /\ exc.reason = Str(reason)
    /\ exc.body = BodyObj(ErrorObj(Num(-32099), Str(reason), Undefined))

\* C4: a transaction composeTransaction returns never carries a gasPrice above
\* defaultGasPrice or a gasLimit above defaultGasLimit, whether the value was
\* supplied, estimated and scaled, or defaulted; a supplied or an estimated
\* value above its threshold makes composeTransaction fail with the matching
\* threshold error (code -32099), and eth_estimateGas never answers more than
\* defaultGasLimit.
C4_GasWithinThresholds ==
    cout.state # "pending" =>
        LET r == Composed
            p == ComposedParams
        IN  /\ r.ok =>
                /\ Truthy(r.value.gasPrice) =>
                       BigNumberFrom(r.value.gasPrice) <= cfg.defaultGasPrice
                /\ Truthy(r.value.gasLimit) =>
                       BigNumberFrom(r.value.gasLimit) <= cfg.defaultGasLimit
            /\ (Truthy(p.gasPrice) /\ p.gasPrice.n > cfg.defaultGasPrice) =>
                   ~r.ok /\ IsThresholdError(r.exc, "Provided gas price exceeds threshold")
            /\ (AsksGasPrice(cfg, p) /\ cin.priceAns.ok
                  /\ Scaled(cin.priceAns.n, cfg.gasPriceFactor) > cfg.defaultGasPrice) =>
                   ~r.ok /\ IsThresholdError(r.exc, "Estimated gas price exceeds threshold")
            /\ (r.ok /\ Truthy(p.gas)) => p.gas.n <= cfg.defaultGasLimit
            /\ (r.ok /\ AsksGasLimit(cfg, p) /\ cin.limitAns.ok) =>
                   Scaled(cin.limitAns.n, cfg.gasLimitFactor) <= cfg.defaultGasLimit
            /\ (~r.ok) =>
                   r.exc.reason \in
                       {Str("Provided gas price exceeds threshold"),
                        Str("Estimated gas price exceeds threshold"),
                        Str("Provided gas limit exceeds threshold"),
                        Str("Estimated gas limit exceeds threshold"),
                        Str("Unpredictable gas price"),
                        Str("Unpredictable gas limit")}
            /\ (cout.state = "estimated" /\ cout.r.ok) =>
                   cout.r.value.n <= cfg.defaultGasLimit

\* C4 witness: the backend's price is within the threshold, the factor lifts it
\* above, and the request is rejected.
C4_Witness ==
    /\ cout.state = "composed"
    /\ AsksGasPrice(cfg, cin.params)
    /\ cin.priceAns.ok
    /\ cin.priceAns.n <= cfg.defaultGasPrice
    /\ Scaled(cin.priceAns.n, cfg.gasPriceFactor) > cfg.defaultGasPrice
    /\ ~cout.r.ok

IsManaged(a) ==
    \E i \in DOMAIN wallets : ToLowerCase(wallets[i]) = ToLowerCase(a)

\* C5 as stated: every transaction composeTransaction returns has `from`
\* resolved to a managed address, gasPrice and gasLimit present and, under
\* type-2 forcing, type = 2 with both EIP-1559 fee fields populated.
C5_Original ==
    (cout.state # "pending" /\ Composed.ok) =>
        LET tx == Composed.value
        IN  /\ Truthy(tx.from) /\ IsManaged(tx.from)
            /\ Truthy(tx.gasPrice) /\ Truthy(tx.gasLimit)
            /\ cfg.forceType2Txs =>
                   /\ tx.type = Num(2)
                   /\ Truthy(tx.maxFeePerGas) /\ Truthy(tx.maxPriorityFeePerGas)

\* C5 amended: composeTransaction returns `from` as the params gave it (absent
\* stays absent, an unmanaged address stays); when the params carry `from`,
\* gasPrice and gasLimit are both present and, under type-2 forcing, both fee
\* fields are populated; when they omit `from`, gasPrice / gasLimit are present
\* only if supplied; type = 2 under forcing in every case.
C5_ComposedShape ==
    (cout.state # "pending" /\ Composed.ok) =>
        LET tx == Composed.value
            p == ComposedParams
        IN  /\ tx.from = p.from
            /\ cfg.forceType2Txs => tx.type = Num(2)
            /\ Truthy(p.from) =>
                   /\ Truthy(tx.gasPrice) /\ Truthy(tx.gasLimit)
                   /\ cfg.forceType2Txs =>
                          Truthy(tx.maxFeePerGas) /\ Truthy(tx.maxPriorityFeePerGas)
            /\ ~Truthy(p.from) =>
                   /\ tx.gasPrice = p.gasPrice
                   /\ Truthy(tx.gasLimit) <=> Truthy(p.gas)
                   /\ Truthy(tx.maxFeePerGas) <=>
                          (Truthy(p.maxFeePerGas)
                             \/ (cfg.forceType2Txs /\ Truthy(p.gasPrice)))

\* C5 witness: params with `from` and no gas fields, type-2 forcing on, composed.
C5_Witness ==
    /\ cout.state = "composed"
    /\ cout.r.ok
    /\ cfg.forceType2Txs
    /\ Truthy(cin.params.from)
    /\ ~Truthy(cin.params.gasPrice) /\ ~Truthy(cin.params.gas)
    /\ ~Truthy(cin.params.maxFeePerGas)
    /\ cout.r.value.maxFeePerGas = cout.r.value.gasPrice

-----------------------------------------------------------------------------
(* The router's error marshalling: the catch clause of the request handler.  *)

\* The failures a backend call can end in, by the members the router reads:
\* an ethers SERVER_ERROR carrying the backend's answer as its body text,
\* a nested one, a non-JSON body, and errors with or without code and data.
BackendErrors ==
    {\* the backend answered a JSON-RPC error; the client library keeps the raw
     \* answer as `body`
     Exception(Str("SERVER_ERROR"), Str("processing response error"),
               Str("processing response error"),
               JsonText(BodyObj(ErrorObj(Num(-32000), Str("nonce too low"),
                                         Str("0xdead")))),
               Undefined, Undefined, Str("Error: processing response error"),
               JsonHolding("processing response error")),
     \* the same, wrapped once more: the body is on exception.error
     Exception(Str("CALL_EXCEPTION"), Str("call revert exception"),
               Str("call revert exception"), Undefined,
               [t |-> "object", reason |-> Str("processing response error"),
                body |-> JsonText(BodyObj(ErrorObj(Num(3), Str("execution reverted"),
                                                   Str("0x08c3"))))],
               Undefined, Str("Error: call revert exception"),
               JsonHolding("call revert exception")),
     \* the backend's body is not JSON
     Exception(Str("SERVER_ERROR"), Str("bad response"), Str("bad response"),
               Str("<html>"), Undefined, Undefined, Str("Error: bad response"),
               JsonHolding("bad response")),
     \* the backend's body is JSON with no `error` member
     Exception(Str("SERVER_ERROR"), Str("bad response"), Str("bad response"),
               JsonText(BodyObj(Undefined)), Undefined, Undefined,
               Str("Error: bad response"), JsonHolding("bad response")),
     \* an error object with its own code, message and data and nothing else
     Exception(Num(-32015), Str("Transaction reverted"), Undefined, Undefined,
               Undefined, Str("0x08c3"), Str("Error: Transaction reverted"),
               JsonHolding("Transaction reverted")),
     \* an Error with no code and no data
     Exception(Undefined, Str("connect ECONNREFUSED"), Undefined, Undefined,
               Undefined, Undefined, Str("Error: connect ECONNREFUSED"), Str("{}")),
     \* an error with data and no code
     Exception(Undefined, Str("reverted"), Undefined, Undefined, Undefined,
               Str("0x08c3"), Str("Error: reverted"), JsonHolding("0x08c3"))}

\* Several requests are in flight at once.
Concurrent == Cardinality(slots) > 1

\* The failures a backend call ends in while the model runs: all of them for a
\* single request, the plain connection error when requests run concurrently.
Failures ==
    IF Concurrent THEN {e \in BackendErrors : ~Truthy(e.code) /\ ~Truthy(e.data)}
    ELSE BackendErrors

\* The exception as an object placed in `data` (Reef) and sent as JSON.
AsJsonObject(e) == [t |-> "object", json |-> e.json]

\* The catch clause without its first step: the exception is kept as thrown.
AssumeExecutionError_Never(ad, e) == e

\* "if no error code is specified, assume the provider is actually reporting an
\* execution error": the exception is replaced.
AssumeExecutionError(ad, e) ==
    IF Truthy(e.code) THEN e
    ELSE Exception(Undefined, Undefined, e.str,
             BodyObj(IF ad = "reef"
                     THEN ErrorObj(Num(-32015), e.str, AsJsonObject(e))
                     ELSE ErrorObj(Num(-32015),
                                   IF Truthy(e.data) THEN Str("Execution error")
                                   ELSE e.json,
                                   e.data)),
             Undefined, Undefined, Str("[object Object]"), e.json)

\* JSON.stringify(body) unless the body is a string already.
BodyText(body) == IF body.t \in {"string", "jsontext"} THEN body ELSE JsonText(body)

InvalidJsonResponse == Str("{ \"code\": -32700, \"message\": \"Invalid JSON response\" }")

\* The `error` member the catch clause puts in the response for exception e0.
ErrorMember(ad, e0) ==
    LET e == AssumeExecutionError(ad, e0)
        nested == IF Truthy(e.error) THEN e.error.reason ELSE e.error
        \* exception.reason || (exception.error && exception.error.reason) || exception
        message == IF Truthy(e.reason) THEN e.reason
                   ELSE IF Truthy(nested) THEN nested ELSE e.str
        body == IF Truthy(e.body) THEN e.body
                ELSE IF Truthy(e.error) /\ Truthy(e.error.body) THEN e.error.body
                ELSE BodyObj(ErrorObj(OrElse(e.code, Num(-32099)), Quoted(message),
                                      e.data))
        text == BodyText(body)
    IN  IF text.t = "jsontext" THEN text.obj.error ELSE InvalidJsonResponse

\* The envelope as it leaves in res.json: a member whose value is undefined is
\* not serialised, so Undefined stands for an absent member.
Envelope(id, result, error) ==
    [jsonrpc |-> "2.0", id |-> id, result |-> result, error |-> error]

-----------------------------------------------------------------------------
(* The routers.  A slot is one HTTP request in flight: received, dispatched  *)
(* to a handler that runs up to its next await in every step, and answered.  *)

Generic == {"ethers", "zksync"}
Adapters == Generic \cup {"conflux", "reef"}

\* The socket-parameters object the generic routers pass as first argument.
Socket == [t |-> "socket"]
Array(items) == [t |-> "array", items |-> items]
Signature(ix, message) == [t |-> "signature", by |-> ix, of |-> message]
SignedTx(ix, tx) == [t |-> "signedtx", by |-> ix, tx |-> tx]
TxHash(tx) == [t |-> "hash", of |-> tx]
Message == Str("0x68656c6c6f")
Latest == Str("latest")

\* The handler tables of the generic routers (alwaysSynced and mockFilters off).
Handlers(ad) ==
    CASE ad = "ethers" -> {"eth_accounts", "eth_call", "eth_getBlockByNumber",
                           "eth_sendTransaction", "eth_sign"}
      [] ad = "zksync" -> {"eth_accounts", "eth_estimateGas", "eth_gasPrice",
                           "eth_sendTransaction"}
      [] OTHER -> {}

\* The transaction objects the routers are driven with.
RouterTxParams ==
    {p \in TxParams : /\ p.maxFeePerGas = Undefined
                      /\ p.maxPriorityFeePerGas = Undefined
                      /\ p.nonce \in {Undefined, Hex(1)}
                      /\ p.gas \in {Undefined, Hex(1)}
                      /\ p.gasPrice \in {Undefined, Hex(1), Hex(MaxGas)}}

Request(method, params) == [method |-> method, params |-> params]

\* The block tags a client names: the two the gateways know, another label and
\* a block (or epoch) number.
Tags == {Latest, Str("pending"), Str("earliest"), Hex(1)}

\* The transaction object of the requests that carry a tag, and of those sent
\* side by side.
ConcurrentTxParams ==
    {p \in RouterTxParams : /\ p.from = Addr(<<"a", "b">>)
                            /\ p.gas = Hex(1)
                            /\ p.gasPrice = Hex(1)
                            /\ p.nonce = Undefined}

\* The requests a client sends to the router of adapter ad.
Requests(ad) ==
    CASE ad = "ethers" ->
           {Request("eth_accounts", <<>>), Request("eth_blockNumber", <<>>),
            Request("eth_getBlockByNumber", <<Latest, Bool(FALSE)>>)}
           \cup {Request("eth_sign", <<a, Message>>) : a \in ClientAddresses}
           \cup {Request("eth_sendTransaction", <<p>>) : p \in RouterTxParams}
           \cup {Request("eth_call", <<p, Latest>>) : p \in RouterTxParams}
      [] ad = "zksync" ->
           {Request("eth_accounts", <<>>), Request("eth_blockNumber", <<>>)}
           \cup {Request("eth_sendTransaction", <<p>>) : p \in RouterTxParams}
           \cup {Request("eth_estimateGas", <<p>>) : p \in RouterTxParams}
      [] ad = "conflux" ->
           {Request("eth_accounts", <<>>), Request("eth_blockNumber", <<>>),
            Request("eth_protocolVersion", <<>>)}
           \cup {Request("eth_sign", <<a, Message>>) : a \in ClientAddresses}
           \cup {Request("eth_sendTransaction", <<p>>) : p \in RouterTxParams}
           \cup {Request("eth_call", <<p, Latest>>) :
                    p \in {q \in RouterTxParams : q.nonce = Undefined}}
           \cup {Request("eth_call", <<p, tag>>) :
                    p \in ConcurrentTxParams, tag \in Tags \ {Latest}}
           \cup {Request("eth_call", <<p>>) : p \in ConcurrentTxParams}
           \cup {Request(m, <<Addr(<<"a", "b">>), tag>>) :
                    m \in {"eth_getBalance", "eth_getCode", "eth_getTransactionCount"},
                    tag \in Tags}
           \cup {Request(m, <<Addr(<<"a", "b">>)>>) :
                    m \in {"eth_getBalance", "eth_getCode", "eth_getTransactionCount"}}
           \cup {Request("eth_getBlockByNumber", <<tag, Bool(FALSE)>>) : tag \in Tags}
           \cup {Request("eth_getTransactionReceipt", <<Str("0xh")>>)}
      [] OTHER ->
           {Request("eth_blockNumber", <<>>), Request("eth_protocolVersion", <<>>),
            Request("eth_getTransactionByHash", <<Str("0xh")>>),
            Request("eth_getTransactionReceipt", <<Str("0xh")>>)}
           \cup {Request("eth_sendTransaction", <<p>>) :
                    p \in {q \in RouterTxParams : /\ q.gas = Hex(1)
                                                   /\ q.gasPrice = Hex(1)}}

\* The answers the backend gives to the quantity requests of a routed request.
RouterAnswers == {a \in Answers : ~a.ok \/ a.n \in {1, MaxGas}}

\* The generic wrapper's configurations the routers run under.
RouterConfigs ==
    {c \in Configs : /\ c.gasPriceFactor = 1000
                     /\ c.gasLimitFactor = 1000
                     /\ ~c.forceType2Txs
                     /\ c.estimateGasLimit = c.estimateGasPrice}

IdleRequest ==
    [pc |-> "idle", id |-> 0, method |-> "", rewritten |-> "", params |-> <<>>,
     tx |-> Undefined, wallet |-> 0, blockTag |-> Undefined, observed |-> Undefined,
     outcome |-> Undefined]

Arg(args, i) == IF i <= Len(args) THEN args[i] ELSE Undefined

\* The handler of slot s ends: its promise settles with outcome o.
Settle(s, o) == reqs' = [reqs EXCEPT ![s].pc = "respond", ![s].outcome = o]
Log(s, event) == calls' = [calls EXCEPT ![s] = Append(@, event)]
Log2(s, first, second) ==
    calls' = [calls EXCEPT ![s] = Append(Append(@, first), second)]

\* WalletWrapper.getWalletByAddress: the index of the wallet, 0 for undefined.
getWalletByAddress(ws, address) ==
    IF Len(ws) = 0 THEN [ok |-> TRUE, ix |-> 0, exc |-> Undefined]
    ELSE IF address.t # "address"
    THEN [ok |-> FALSE, ix |-> 0,
          exc |-> TypeError("address.toLowerCase is not a function")]
    ELSE LET found == {ix \in 1..Len(ws) : ToLowerCase(ws[ix]) = ToLowerCase(address)}
         IN  [ok |-> TRUE, exc |-> Undefined,
              ix |-> IF found = {} THEN 0
                     ELSE CHOOSE ix \in found : \A other \in found : ix <= other]

UnknownSigner == GatewayThrow(-32000, "No private key available")

\* WalletWrapper.processEthSignMessage (address, message, socket).
processEthSignMessage(ws, address, message, socket) ==
    LET w == getWalletByAddress(ws, address)
    IN  IF ~w.ok THEN Throws(w.exc)
        ELSE IF w.ix = 0 THEN Throws(UnknownSigner)
        ELSE Outcome(Signature(w.ix, message))

-----------------------------------------------------------------------------
(* The generic routers (ethers and zkSync) over the generic wrapper.         *)

\* The requests of two clients whose handling is followed side by side: the
\* transactions of one wallet and the calls, with no gas left to estimate.
ConcurrentRequests ==
    CASE adapter = "zksync" ->
           {rq \in Requests(adapter) :
               \/ rq.method = "eth_accounts"
               \/ /\ rq.method = "eth_sendTransaction"
                  /\ rq.params[1].from \in {Undefined, Addr(<<"a", "b">>)}
                  /\ rq.params[1].gas = Hex(1)
                  /\ rq.params[1].gasPrice = Hex(1)
                  /\ rq.params[1].nonce = Undefined}
      [] adapter = "conflux" ->
           {rq \in Requests(adapter) :
               /\ rq.method = "eth_call"
               /\ rq.params[1] \in ConcurrentTxParams
               /\ Len(rq.params) = 2
               /\ rq.params[2] = Latest}
      [] OTHER ->
           {rq \in Requests(adapter) :
               /\ rq.method \in {"eth_sendTransaction", "eth_call"}
               /\ rq.params[1].from = Addr(<<"a", "b">>)
               /\ rq.params[1].gas = Hex(1)
               /\ rq.params[1].gasPrice = Hex(1)
               /\ rq.method = "eth_call" => rq.params[1].nonce = Undefined}

\* What arrives: any request when one is followed, the concurrent ones when
\* several are; concurrent requests carry distinct ids.
Inbound == IF Concurrent THEN ConcurrentRequests ELSE Requests(adapter)
Ids(s) == IF Concurrent THEN {s} ELSE 1..MaxId

\* app.post('*'): a request arrives on slot s and is about to be dispatched.
Receive(s) ==
    /\ reqs[s].pc = "idle"
    /\ \E id \in Ids(s), rq \in Inbound :
          reqs' = [reqs EXCEPT ![s] = [IdleRequest EXCEPT
                      !.pc = "routing", !.id = id, !.method = rq.method,
                      !.rewritten = rq.method, !.params = rq.params]]
    /\ UNCHANGED <<adapter, cfg, slots, responses, calls, floating, uncaught,
                   lastKnownBlock, lastKnownEpochNumber, wallets, chain, cin, cout>>

\* The arguments a generic router hands to a handler: (socket, ...params).
HandlerArgs(params) == <<Socket>> \o params

Dispatched(s, methods) ==
    /\ adapter \in Generic
    /\ reqs[s].pc = "routing"
    /\ reqs[s].method \in methods \cap Handlers(adapter)

\* eth_accounts: WalletWrapper.getAccounts.
getAccounts(s) ==
    /\ Dispatched(s, {"eth_accounts"})
    /\ Settle(s, Outcome(Array(wallets)))
    /\ UNCHANGED <<adapter, cfg, slots, responses, calls, floating, uncaught,
                   lastKnownBlock, lastKnownEpochNumber, wallets, chain, cin, cout>>

\* eth_sign: the handler table's processEthSignMessage, called by the router.
EthSign(s) ==
    /\ Dispatched(s, {"eth_sign"})
    /\ LET args == HandlerArgs(reqs[s].params)
       IN  Settle(s, processEthSignMessage(wallets, Arg(args, 1), Arg(args, 2),
                                           Arg(args, 3)))
    /\ UNCHANGED <<adapter, cfg, slots, responses, calls, floating, uncaught,
                   lastKnownBlock, lastKnownEpochNumber, wallets, chain, cin, cout>>

\* The block object the wrapper returns for a block the backend has.
Block(c, head) ==
    [t |-> "object", number |-> Num(head),
     gasLimit |-> IF c.estimateGasLimit THEN Num(c.defaultGasLimit) ELSE Hex(MaxGas)]

\* eth_getBlockByNumber: WalletWrapper.getBlockByNumber; an exception of the
\* backend is bypassed and `res` is returned as it is.
getBlockByNumber(s) ==
    /\ Dispatched(s, {"eth_getBlockByNumber"})
    /\ \E ans \in {"block", "null", "exception"} :
          Settle(s, Outcome(CASE ans = "block" -> Block(cfg, chain.head)
                              [] ans = "null" -> Null
                              [] OTHER -> Undefined))
    /\ Log(s, [call |-> "eth_getBlockByNumber"])
    /\ UNCHANGED <<adapter, cfg, slots, responses, floating, uncaught,
                   lastKnownBlock, lastKnownEpochNumber, wallets, chain, cin, cout>>

\* What the backend answers to a forwarded method when it does not fail.
BackendResult(method, ch) ==
    IF method \in {"eth_blockNumber", "cfx_epochNumber"} THEN Hex(ch.head)
    ELSE Str("0x01")

\* A method with no handler goes to provider.send(method, params).
Forward(s) ==
    /\ adapter \in Generic
    /\ reqs[s].pc = "routing"
    /\ reqs[s].method \notin Handlers(adapter)
    /\ \/ Settle(s, Outcome(BackendResult(reqs[s].method, chain)))
       \/ \E e \in Failures : Settle(s, Throws(e))
    /\ Log(s, [call |-> reqs[s].method, params |-> reqs[s].params])
    /\ UNCHANGED <<adapter, cfg, slots, responses, floating, uncaught,
                   lastKnownBlock, lastKnownEpochNumber, wallets, chain, cin, cout>>

\* processEthEstimateGas, processEthCall and processTransaction up to the end of
\* composeTransaction.  processTransaction first starts checkRollbacks and does
\* not await it: the check stays floating.
Compose(s) ==
    /\ Dispatched(s, {"eth_sendTransaction", "eth_call", "eth_estimateGas"})
    /\ LET method == reqs[s].method
           params == Arg(HandlerArgs(reqs[s].params), 2)
           seen == IF method = "eth_estimateGas" /\ Truthy(params.gas)
                   THEN [params EXCEPT !.gas = EmptyString] ELSE params
       IN  \E pa \in RouterAnswers, la \in RouterAnswers :
             /\ AsksGasPrice(cfg, seen) \/ pa = NoAnswer
             /\ (AsksGasLimit(cfg, seen) /\ ComposeGasPrice(cfg, seen, pa).ok)
                \/ la = NoAnswer
             /\ LET r == composeTransaction(cfg, seen, pa, la)
                IN  \/ /\ method = "eth_estimateGas"
                       /\ Settle(s, processEthEstimateGas(cfg, params, pa, la))
                    \/ /\ method # "eth_estimateGas"
                       /\ ~r.ok
                       /\ Settle(s, r)
                    \/ /\ method # "eth_estimateGas"
                       /\ r.ok
                       /\ reqs' = [reqs EXCEPT
                             ![s].tx = r.value,
                             ![s].pc = IF method = "eth_sendTransaction" THEN "signer"
                                       ELSE IF cfg.interleaveBlocks > 0 THEN "rollbacks"
                                       ELSE "call"]
             /\ Log(s, [call |-> "composeTransaction",
                        gasPrice |-> AsksGasPrice(cfg, seen),
                        estimateGas |-> AsksGasLimit(cfg, seen)
                                        /\ ComposeGasPrice(cfg, seen, pa).ok])
             /\ floating' = IF method = "eth_sendTransaction"
                            THEN floating \cup {s} ELSE floating
    /\ UNCHANGED <<adapter, cfg, slots, responses, uncaught,
                   lastKnownBlock, lastKnownEpochNumber, wallets, chain, cin, cout>>

\* A processTransaction that signs and submits before it looks at the wallet
\* it found.
ResolveSigner_SubmitsFirst(s) ==
    /\ adapter \in Generic
    /\ reqs[s].pc = "signer"
    /\ LET w == getWalletByAddress(wallets, OrElse(reqs[s].tx.from, wallets[1]))
       IN  /\ IF ~w.ok THEN Settle(s, Throws(w.exc))
              ELSE IF w.ix = 0 THEN Settle(s, Throws(UnknownSigner))
              ELSE reqs' = [reqs EXCEPT
                      ![s].wallet = w.ix,
                      ![s].pc = IF ~Truthy(reqs[s].tx.nonce) THEN "nonce" ELSE "sign"]
           /\ Log2(s, [call |-> "getWalletByAddress"],
                   [call |-> "eth_sendRawTransaction",
                    signedTx |-> SignedTx(w.ix, reqs[s].tx)])
    /\ UNCHANGED <<adapter, cfg, slots, responses, floating, uncaught,
                   lastKnownBlock, lastKnownEpochNumber, wallets, chain, cin, cout>>

\* processTransaction: "Fetch Wallet interaction object".
ResolveSigner(s) ==
    /\ adapter \in Generic
    /\ reqs[s].pc = "signer"
    /\ LET w == getWalletByAddress(wallets, OrElse(reqs[s].tx.from, wallets[1]))
       IN  IF ~w.ok THEN Settle(s, Throws(w.exc))
           ELSE IF w.ix = 0 THEN Settle(s, Throws(UnknownSigner))
           ELSE reqs' = [reqs EXCEPT
                   ![s].wallet = w.ix,
                   ![s].pc = IF ~Truthy(reqs[s].tx.nonce) THEN "nonce" ELSE "sign"]
    /\ Log(s, [call |-> "getWalletByAddress"])
    /\ UNCHANGED <<adapter, cfg, slots, responses, floating, uncaught,
                   lastKnownBlock, lastKnownEpochNumber, wallets, chain, cin, cout>>

\* wallet.getTransactionCount() that counts in the transactions the gateway has
\* prepared for the wallet and not yet submitted.
getTransactionCount_Reserving(ch, ix, rs) ==
    ch.nonce[ix] + Cardinality({t \in DOMAIN rs : rs[t].pc = "sign" /\ rs[t].wallet = ix})

\* wallet.getTransactionCount(): the backend's count for the wallet's address;
\* the requests in flight (rs) have no part in it.
getTransactionCount(ch, ix, rs) == ch.nonce[ix]

\* processTransaction: "Add current nonce", wallet.getTransactionCount().
FetchNonce(s) ==
    /\ adapter \in Generic
    /\ reqs[s].pc = "nonce"
    /\ \/ reqs' = [reqs EXCEPT ![s].tx.nonce =
                                   Num(getTransactionCount(chain, reqs[s].wallet, reqs)),
                               ![s].pc = "sign"]
       \/ \E e \in Failures : Settle(s, Throws(e))
    /\ Log(s, [call |-> "eth_getTransactionCount"])
    /\ UNCHANGED <<adapter, cfg, slots, responses, floating, uncaught,
                   lastKnownBlock, lastKnownEpochNumber, wallets, chain, cin, cout>>

\* The backend takes a signed transaction whose nonce is the account's next one.
Accepts(ch, ix, tx) == tx.nonce.t \in {"number", "hex"} /\ tx.nonce.n = ch.nonce[ix]
Mined(ch, ix) == [ch EXCEPT !.nonce[ix] = @ + 1]

\* processTransaction: wallet.signTransaction(tx), provider.sendTransaction.
SignAndSend(s) ==
    /\ adapter \in Generic
    /\ reqs[s].pc = "sign"
    /\ LET ix == reqs[s].wallet
           signedTx == SignedTx(ix, reqs[s].tx)
       IN  /\ \/ /\ Accepts(chain, ix, reqs[s].tx)
                 /\ chain' = Mined(chain, ix)
                 /\ Settle(s, Outcome(TxHash(signedTx)))
              \/ /\ \E e \in Failures : Settle(s, Throws(e))
                 /\ UNCHANGED chain
           /\ Log(s, [call |-> "eth_sendRawTransaction", signedTx |-> signedTx])
    /\ UNCHANGED <<adapter, cfg, slots, responses, floating, uncaught,
                   lastKnownBlock, lastKnownEpochNumber, wallets, cin, cout>>

\* checkRollbacks handing back the block number the adapter knew before the call.
checkRollbacks_LastKnown(block, known) == [lastKnownBlock |-> block, returns |-> known]

\* checkRollbacks: the backend's block number becomes lastKnownBlock and is returned.
checkRollbacks(block, known) == [lastKnownBlock |-> block, returns |-> block]

\* What checkRollbacks writes to the log when it finds the block number below
\* the last one known (both branches go through logger.warn), Undefined when
\* it writes nothing.
RollbackTrace(block, known, interleave) ==
    IF block < known
    THEN IF block <= known - interleave
         THEN [level |-> "warn", message |-> "Threatening rollback"]
         ELSE [level |-> "warn", message |-> "Harmless rollback"]
    ELSE Undefined

\* checkRollbacks, provider.getBlockNumber(): the backend reads its head and
\* answers; the answer is on its way to the gateway.
ProviderGetBlockNumber(s) ==
    /\ adapter \in Generic
    /\ reqs[s].pc = "rollbacks"
    /\ reqs' = [reqs EXCEPT ![s].observed = Num(chain.head), ![s].pc = "blocknumber"]
    /\ UNCHANGED <<adapter, cfg, slots, responses, calls, floating, uncaught,
                   lastKnownBlock, lastKnownEpochNumber, wallets, chain, cin, cout>>

\* processEthCall with interleaveBlocks > 0: the answer arrives and the
\* awaited checkRollbacks gives the block tag.
CheckRollbacksForCall(s) ==
    /\ adapter \in Generic
    /\ reqs[s].pc = "blocknumber"
    /\ \/ LET block == reqs[s].observed.n
              r == checkRollbacks(block, lastKnownBlock)
          IN  /\ lastKnownBlock' = r.lastKnownBlock
              /\ reqs' = [reqs EXCEPT
                    ![s].blockTag = Num(r.returns - cfg.interleaveBlocks),
                    ![s].pc = "call"]
              /\ Log(s, [call |-> "eth_blockNumber", block |-> Num(block),
                         known |-> lastKnownBlock,
                         trace |-> RollbackTrace(block, lastKnownBlock,
                                                 cfg.interleaveBlocks)])
       \/ /\ \E e \in Failures : Settle(s, Throws(e))
          /\ UNCHANGED lastKnownBlock
          /\ Log(s, [call |-> "eth_blockNumber", block |-> Undefined,
                     known |-> lastKnownBlock, trace |-> Undefined])
    /\ UNCHANGED <<adapter, cfg, slots, responses, floating, uncaught,
                   lastKnownEpochNumber, wallets, chain, cin, cout>>

\* processEthCall: provider.call(tx) or provider.call(tx, blockTag).
ProviderCall(s) ==
    /\ adapter \in Generic
    /\ reqs[s].pc = "call"
    /\ \/ Settle(s, Outcome(Str("0x01")))
       \/ \E e \in Failures : Settle(s, Throws(e))
    /\ Log(s, [call |-> "eth_call", blockTag |-> reqs[s].blockTag])
    /\ UNCHANGED <<adapter, cfg, slots, responses, floating, uncaught,
                   lastKnownBlock, lastKnownEpochNumber, wallets, chain, cin, cout>>

\* The checkRollbacks that processTransaction left floating gets its answer: the
\* block number, or a failure that nothing awaits and no handler catches.
SettleRollbackCheck(s) ==
    /\ s \in floating
    /\ floating' = floating \ {s}
    /\ \/ /\ lastKnownBlock' = checkRollbacks(chain.head, lastKnownBlock).lastKnownBlock
          /\ UNCHANGED uncaught
       \/ /\ uncaught' = uncaught \cup {s}
          /\ UNCHANGED lastKnownBlock
    /\ UNCHANGED <<adapter, cfg, slots, reqs, responses, calls,
                   lastKnownEpochNumber, wallets, chain, cin, cout>>

\* The chain moves on, or is rolled back, while requests are in flight.
BackendAdvance ==
    /\ \E h \in 0..MaxHead : h # chain.head /\ chain' = [chain EXCEPT !.head = h]
    /\ UNCHANGED <<adapter, cfg, slots, reqs, responses, calls, floating, uncaught,
                   lastKnownBlock, lastKnownEpochNumber, wallets, cin, cout>>

-----------------------------------------------------------------------------
(* The Conflux router and wrapper.                                           *)

dictionaryEthCfx(method) ==
    CASE method = "eth_blockNumber" -> "cfx_epochNumber"
      [] method = "eth_call" -> "cfx_call"
      [] method = "eth_gasPrice" -> "cfx_gasPrice"
      [] method = "eth_getBalance" -> "cfx_getBalance"
      [] method = "eth_getBlockByHash" -> "cfx_getBlockByHash"
      [] method = "eth_getBlockByNumber" -> "cfx_getBlockByEpochNumber"
      [] method = "eth_getCode" -> "cfx_getCode"
      [] method = "eth_getLogs" -> "cfx_getLogs"
      [] method = "eth_getStorageAt" -> "cfx_getStorageAt"
      [] method = "eth_getTransactionByHash" -> "cfx_getTransactionByHash"
      [] method = "eth_getTransactionCount" -> "cfx_getNextNonce"
      [] method = "eth_getTransactionReceipt" -> "cfx_getTransactionReceipt"
      [] OTHER -> method

rpcMethodHandlers ==
    {"cfx_call", "eth_estimateGas", "cfx_sendTransaction", "eth_accounts",
     "eth_chainId", "eth_getFilterChanges", "eth_newBlockFilter",
     "eth_sendTransaction", "eth_sign", "eth_syncing", "eth_uninstallFilter",
     "net_version"}

\* The configurations of the Conflux wrapper the model runs under.
CfxConfigs ==
    [estimateGasPrice : BOOLEAN, defaultGasPrice : {2}, defaultGas : {2},
     confirmationEpochs : {0, 1}, epochLabel : {"latest_state"}, networkId : {1}]

\* confluxFormat.address(hex, networkId): the base32 form, the same for every
\* letter case of the hex string.
translateEthAddress(a) == [t |-> "cfxaddress", chars |-> ToLowerCase(a).chars]
\* confluxFormat.hexAddress(cfx)
hexAddress(c) == Addr(c.chars)

\* A translator that hands every tag over as it came.
translateTag_Unchanged(c, tag) == tag

translateTag(c, tag) ==
    IF tag = Latest THEN Str(c.epochLabel)
    ELSE IF tag = Str("pending") THEN Str("latest_checkpoint") ELSE tag

translateEthAddressesInTransaction(tx) ==
    [tx EXCEPT !.from = IF Truthy(@) THEN translateEthAddress(@) ELSE @,
               !.to = IF Truthy(@) THEN translateEthAddress(@) ELSE @]

\* typeof v === 'string'
IsString(v) == v.t \in {"string", "hex", "address", "cfxaddress"}

\* paramsTranslateAddress: the address in first position.
paramsTranslateAddress(c, params) ==
    IF Len(params) > 0 THEN [params EXCEPT ![1] = translateEthAddress(@)] ELSE params

\* paramsTranslateAddrAndTag: the address in first position, the tag in second.
paramsTranslateAddrAndTag(c, params) ==
    [i \in DOMAIN params |->
        IF i = 1 THEN translateEthAddress(params[1])
        ELSE IF i = 2 /\ IsString(params[2]) THEN translateTag(c, params[2])
        ELSE params[i]]

\* paramsTranslateTag: the tag in first position.
paramsTranslateTag(c, params) ==
    IF Len(params) > 0 THEN [params EXCEPT ![1] = translateTag(c, @)] ELSE params

\* paramsTranslateTxAndTag: the transaction in first position, the tag in second.
paramsTranslateTxAndTag(c, params) ==
    [i \in DOMAIN params |->
        IF i = 1 THEN translateEthAddressesInTransaction(params[1])
        ELSE IF i = 2 /\ Truthy(params[2]) /\ IsString(params[2])
        THEN translateTag(c, params[2]) ELSE params[i]]

\* rpcParamsHandlers, keyed by the method the client sent.
TranslateParams(c, method, params) ==
    CASE method \in {"eth_call", "eth_estimateGas", "eth_sendTransaction"} ->
            paramsTranslateTxAndTag(c, params)
      [] method \in {"eth_getCode", "eth_getBalance", "eth_getTransactionCount"} ->
            paramsTranslateAddrAndTag(c, params)
      [] method = "eth_getBlockByNumber" -> paramsTranslateTag(c, params)
      [] method = "eth_sign" -> paramsTranslateAddress(c, params)
      [] OTHER -> params

\* The addresses of the Conflux wallet, in Conflux form.
CfxAccounts(ws) == [i \in DOMAIN ws |-> translateEthAddress(ws[i])]

\* WalletWrapper.getAccount of the Conflux wrapper: the index, 0 for undefined.
getAccount(ws, address) ==
    LET found == {ix \in 1..Len(ws) : CfxAccounts(ws)[ix] = address}
    IN  IF found = {} THEN 0 ELSE CHOOSE ix \in found : \A o \in found : ix <= o

\* A JavaScript object: its own keys in insertion order and the value of each.
Obj(keys, at) == [t |-> "object", keys |-> keys, at |-> at]
\* obj[key]
Get(o, key) == IF key \in DOMAIN o.at THEN o.at[key] ELSE Undefined
\* obj[key] = v
Put(o, key, v) ==
    IF key \in DOMAIN o.at THEN [o EXCEPT !.at[key] = v]
    ELSE Obj(Append(o.keys, key), (key :> v) @@ o.at)

\* typeof v === 'object' && v !== null
IsObject(v) == v.t \in {"object", "array"}

\* The `logs` case: every log gets its index and the receipt's coordinates.
EnrichLogs(o) ==
    LET logs == Get(o, "logs")
        enrich(l, i) ==
            Put(Put(Put(Put(Put(l, "logIndex", Hex(i - 1)),
                "transactionIndex", Get(o, "transactionIndex")),
                "transactionHash", Get(o, "transactionHash")),
                "blockNumber", Get(o, "epochNumber")),
                "blockHash", Get(o, "blockHash"))
    IN  Put(o, "logs", Array([i \in DOMAIN logs.items |-> enrich(logs.items[i], i)]))

\* The `status` and `outcomeStatus` cases.
TranslateStatus(o, key) ==
    LET v == Get(o, key)
    IN  IF ~Truthy(v) THEN o
        ELSE IF v.t = "number" THEN Put(o, "status", Num(IF v.n = 0 THEN 1 ELSE 0))
        ELSE IF IsString(v)
        THEN Put(o, "status", IF v \in {Str("0"), Hex(0)} THEN Hex(1) ELSE Hex(0))
        ELSE Put(o, "status", v)

\* The switch on the key: members renamed or replicated for Ethereum clients.
RenameKey(o, key) ==
    CASE key = "epochNumber" -> Put(Put(o, "number", Get(o, key)), "blockNumber", Get(o, key))
      [] key = "index" -> Put(o, "transactionIndex", Get(o, key))
      [] key = "gasUsed" -> Put(o, "cumulativeGasUsed", Get(o, key))
      [] key = "contractCreated" -> Put(o, "contractAddress", Get(o, key))
      [] key = "stateRoot" -> Put(o, "root", Get(o, key))
      [] key = "logs" -> EnrichLogs(o)
      [] key \in {"status", "outcomeStatus"} -> TranslateStatus(o, key)
      [] OTHER -> o

RECURSIVE translateCfxResponseObject(_)
RECURSIVE TranslateKeys(_, _, _)

\* translateCfxResponseObject: objects are entered, strings starting with
\* "cfx" become hex addresses, and the keys of Object.keys(obj), taken before
\* the loop, are visited in order.
translateCfxResponseObject(obj) ==
    IF obj.t = "array"
    THEN Array([i \in DOMAIN obj.items |->
                  IF IsObject(obj.items[i]) THEN translateCfxResponseObject(obj.items[i])
                  ELSE IF obj.items[i].t = "cfxaddress" THEN hexAddress(obj.items[i])
                  ELSE obj.items[i]])
    ELSE TranslateKeys(obj, obj.keys, 1)

\* The body of keys.forEach from the i-th key on.
TranslateKeys(o, keys, i) ==
    IF i > Len(keys) THEN o
    ELSE LET key == keys[i]
             value == Get(o, key)
             entered == IF IsObject(value)
                        THEN Put(o, key, translateCfxResponseObject(value))
                        ELSE IF value.t = "cfxaddress"
                        THEN Put(o, key, hexAddress(value))
                        ELSE o
         IN  TranslateKeys(RenameKey(entered, key), keys, i + 1)

\* method.startsWith('eth_'), over the method names of the model.
StartsWithEth(method) ==
    method \in {"eth_accounts", "eth_blockNumber", "eth_call", "eth_estimateGas",
                "eth_getBalance", "eth_getBlockByNumber", "eth_getCode",
                "eth_getTransactionCount", "eth_getTransactionReceipt",
                "eth_protocolVersion", "eth_sendTransaction", "eth_sign"}

\* What the Conflux node holds of a mined transaction, and of an epoch.
CfxReceipts(ch) ==
    {Obj(<<"transactionHash", "index", "epochNumber", "from", "outcomeStatus", "logs">>,
         [transactionHash |-> Str("0xh"), index |-> Hex(0),
          epochNumber |-> Hex(ch.head),
          from |-> translateEthAddress(Addr(<<"a", "b">>)),
          outcomeStatus |-> st,
          logs |-> Array(<<Obj(<<"data">>, [data |-> Str("0x")])>>)]) :
       st \in {Hex(0), Hex(1)}}
CfxBlock(ch) ==
    Obj(<<"epochNumber", "miner">>,
        [epochNumber |-> Hex(ch.head), miner |-> translateEthAddress(Addr(<<"c", "a">>))])

\* The answers of the Conflux node to a forwarded method.
CfxResults(method, ch) ==
    CASE method = "cfx_epochNumber" -> {Hex(ch.head)}
      [] method = "cfx_getTransactionReceipt" -> {Null} \cup CfxReceipts(ch)
      [] method = "cfx_getBlockByEpochNumber" -> {CfxBlock(ch)}
      [] OTHER -> {Str("0x01")}

\* The request of slot s, its method rewritten and its params translated, is
\* at the dispatch of the Conflux router.
CfxDispatched(s, methods) ==
    /\ adapter = "conflux"
    /\ reqs[s].pc = "routing"
    /\ dictionaryEthCfx(reqs[s].method) \in methods

\* The arguments the Conflux router hands to a handler: (...params, socket).
CfxArgs(s) == TranslateParams(cfg, reqs[s].method, reqs[s].params) \o <<Socket>>

\* eth_accounts on Conflux: WalletWrapper.getAccounts.
CfxGetAccounts(s) ==
    /\ CfxDispatched(s, {"eth_accounts"})
    /\ Settle(s, Outcome(Array(CfxAccounts(wallets))))
    /\ UNCHANGED <<adapter, cfg, slots, responses, calls, floating, uncaught,
                   lastKnownBlock, lastKnownEpochNumber, wallets, chain, cin, cout>>

\* eth_sign on Conflux: processEthSignMessage(address, message, socket).
CfxSign(s) ==
    /\ CfxDispatched(s, {"eth_sign"})
    /\ LET address == Arg(CfxArgs(s), 1)
           message == Arg(CfxArgs(s), 2)
           ix == getAccount(wallets, address)
       IN  Settle(s, IF ix # 0 THEN Outcome(Signature(ix, message))
                     ELSE Throws(UnknownSigner))
    /\ UNCHANGED <<adapter, cfg, slots, responses, calls, floating, uncaught,
                   lastKnownBlock, lastKnownEpochNumber, wallets, chain, cin, cout>>

\* An eth_ method with no handler and no alias is refused.
CfxUnhandled(s) ==
    /\ adapter = "conflux"
    /\ reqs[s].pc = "routing"
    /\ dictionaryEthCfx(reqs[s].method) \notin rpcMethodHandlers
    /\ StartsWithEth(dictionaryEthCfx(reqs[s].method))
    /\ Settle(s, Throws(GatewayThrow(-32601, "Unhandled method")))
    /\ UNCHANGED <<adapter, cfg, slots, responses, calls, floating, uncaught,
                   lastKnownBlock, lastKnownEpochNumber, wallets, chain, cin, cout>>

\* Any other method goes to wrapper.send(method, params).
CfxForward(s) ==
    /\ adapter = "conflux"
    /\ reqs[s].pc = "routing"
    /\ dictionaryEthCfx(reqs[s].method) \notin rpcMethodHandlers
    /\ ~StartsWithEth(dictionaryEthCfx(reqs[s].method))
    /\ \/ \E r \in CfxResults(dictionaryEthCfx(reqs[s].method), chain) :
             Settle(s, Outcome(r))
       \/ \E e \in Failures : Settle(s, Throws(e))
    /\ Log(s, [call |-> dictionaryEthCfx(reqs[s].method),
               params |-> TranslateParams(cfg, reqs[s].method, reqs[s].params)])
    /\ UNCHANGED <<adapter, cfg, slots, responses, floating, uncaught,
                   lastKnownBlock, lastKnownEpochNumber, wallets, chain, cin, cout>>

\* What the Conflux checkRollbacks writes to the log when it finds the epoch
\* number below the last one known.
CfxRollbackTrace(epoch, known, confirmations) ==
    IF epoch < known
    THEN IF epoch <= known - confirmations
         THEN [level |-> "error", message |-> "Detected compromising rollback"]
         ELSE [level |-> "warn", message |-> "Filtered possible rollback"]
    ELSE Undefined

\* cfx_call: WalletWrapper.call awaits checkRollbacks, conflux.getEpochNumber():
\* the node reads its epoch number and answers; the answer is on its way.
CfxGetEpochNumber(s) ==
    /\ CfxDispatched(s, {"cfx_call"})
    /\ reqs' = [reqs EXCEPT ![s].observed = Num(chain.head), ![s].pc = "epochnumber"]
    /\ UNCHANGED <<adapter, cfg, slots, responses, calls, floating, uncaught,
                   lastKnownBlock, lastKnownEpochNumber, wallets, chain, cin, cout>>

\* checkRollbacks once the answer has arrived: the trace, and the epoch number
\* stored in lastKnownEpochNumber and returned.
CfxCheckRollbacks(s) ==
    /\ adapter = "conflux"
    /\ reqs[s].pc = "epochnumber"
    /\ \/ LET epoch == reqs[s].observed.n
          IN  /\ lastKnownEpochNumber' = epoch
              /\ reqs' = [reqs EXCEPT ![s].tx = Arg(CfxArgs(s), 1),
                                      ![s].blockTag = Num(epoch),
                                      ![s].pc = "cfxcall"]
              /\ Log(s, [call |-> "cfx_epochNumber", epoch |-> Num(epoch),
                         known |-> lastKnownEpochNumber,
                         trace |-> CfxRollbackTrace(epoch, lastKnownEpochNumber,
                                                    cfg.confirmationEpochs)])
       \/ /\ \E e \in Failures : Settle(s, Throws(e))
          /\ UNCHANGED lastKnownEpochNumber
          /\ Log(s, [call |-> "cfx_epochNumber", epoch |-> Undefined,
                     known |-> lastKnownEpochNumber, trace |-> Undefined])
    /\ UNCHANGED <<adapter, cfg, slots, responses, floating, uncaught,
                   lastKnownBlock, wallets, chain, cin, cout>>

\* WalletWrapper.call after checkRollbacks: the epoch of the call, the default
\* sender, conflux.call(tx, epoch).
CfxCall(s) ==
    /\ adapter = "conflux"
    /\ reqs[s].pc = "cfxcall"
    /\ LET epoch == IF cfg.confirmationEpochs > 0
                    THEN Num(lastKnownEpochNumber - cfg.confirmationEpochs)
                    ELSE reqs[s].blockTag
           tx == [reqs[s].tx EXCEPT
                     !.from = IF ~Truthy(@) THEN CfxAccounts(wallets)[1] ELSE @]
       IN  /\ \/ Settle(s, Outcome(Str("0x01")))
              \/ \E e \in Failures : Settle(s, Throws(e))
           /\ Log(s, [call |-> "cfx_call", tx |-> tx, epoch |-> epoch])
    /\ UNCHANGED <<adapter, cfg, slots, responses, floating, uncaught,
                   lastKnownBlock, lastKnownEpochNumber, wallets, chain, cin, cout>>

\* processTransaction of the Conflux wrapper up to getEpochNumber: the gas
\* price (estimated prices get a "0" digit appended), the default sender.
CfxPrepare(s) ==
    /\ CfxDispatched(s, {"eth_sendTransaction", "cfx_sendTransaction"})
    /\ LET params == Arg(CfxArgs(s), 1)
           from == IF ~Truthy(params.from) THEN CfxAccounts(wallets)[1]
                   ELSE params.from
       IN  \E pa \in RouterAnswers, epochOk \in BOOLEAN :
             /\ cfg.estimateGasPrice \/ pa = NoAnswer
             /\ IF cfg.estimateGasPrice /\ ~pa.ok
                THEN \E e \in Failures : Settle(s, Throws(e))
                ELSE IF cfg.estimateGasPrice /\ pa.n > cfg.defaultGasPrice
                THEN Settle(s, Throws(GatewayThrow(-32099,
                                   "Estimated gas price exceeds threshold")))
                ELSE IF ~epochOk
                THEN \E e \in Failures : Settle(s, Throws(e))
                ELSE reqs' = [reqs EXCEPT
                        ![s].pc = "cfxnonce",
                        ![s].tx = [from |-> from, to |-> params.to,
                                   gasPrice |-> IF cfg.estimateGasPrice
                                                THEN Hex(pa.n * 10)
                                                ELSE OrElse(params.gasPrice,
                                                        Hex(cfg.defaultGasPrice)),
                                   data |-> OrElse(params.data, Null),
                                   gas |-> params.gas,
                                   nonce |-> Undefined,
                                   epochHeight |-> Hex(chain.head + 100),
                                   chainId |-> Hex(cfg.networkId)]]
             /\ Log(s, [call |-> "cfx_gasPrice", asked |-> cfg.estimateGasPrice,
                        answer |-> pa])
    /\ UNCHANGED <<adapter, cfg, slots, responses, floating, uncaught,
                   lastKnownBlock, lastKnownEpochNumber, wallets, chain, cin, cout>>

\* processTransaction: conflux.getNextNonce(params.from), whatever the request
\* says about its nonce and whoever the sender is.
CfxNextNonce(s) ==
    /\ adapter = "conflux"
    /\ reqs[s].pc = "cfxnonce"
    /\ LET ix == getAccount(wallets, reqs[s].tx.from)
           next == IF ix = 0 THEN 0 ELSE chain.nonce[ix]
       IN  \/ reqs' = [reqs EXCEPT ![s].tx.nonce = Hex(next), ![s].pc = "cfxsign"]
           \/ \E e \in Failures : Settle(s, Throws(e))
    /\ Log(s, [call |-> "cfx_getNextNonce"])
    /\ UNCHANGED <<adapter, cfg, slots, responses, floating, uncaught,
                   lastKnownBlock, lastKnownEpochNumber, wallets, chain, cin, cout>>

\* processTransaction: the cost estimation (a failure falls back on params.gas,
\* which to0x cannot format when it is missing), the signer, the submission.
CfxSignAndSend(s) ==
    /\ adapter = "conflux"
    /\ reqs[s].pc = "cfxsign"
    /\ LET ix == getAccount(wallets, reqs[s].tx.from)
           signedTx == SignedTx(ix, reqs[s].tx)
       IN  \/ /\ ~Truthy(reqs[s].tx.gas)
              /\ Settle(s, Throws(TypeError("Cannot read properties of undefined")))
              /\ Log(s, [call |-> "cfx_estimateGasAndCollateral"])
              /\ UNCHANGED chain
           \/ /\ ix = 0
              /\ Settle(s, Throws(UnknownSigner))
              /\ Log(s, [call |-> "getAccount"])
              /\ UNCHANGED chain
           \/ /\ ix # 0
              /\ Accepts(chain, ix, reqs[s].tx)
              /\ chain' = Mined(chain, ix)
              /\ Settle(s, Outcome(TxHash(signedTx)))
              /\ Log2(s, [call |-> "getAccount"],
                      [call |-> "cfx_sendRawTransaction", signedTx |-> signedTx])
           \/ /\ ix # 0
              /\ \E e \in Failures : Settle(s, Throws(e))
              /\ Log2(s, [call |-> "getAccount"],
                      [call |-> "cfx_sendRawTransaction", signedTx |-> signedTx])
              /\ UNCHANGED chain
    /\ UNCHANGED <<adapter, cfg, slots, responses, floating, uncaught,
                   lastKnownBlock, lastKnownEpochNumber, wallets, cin, cout>>

-----------------------------------------------------------------------------
(* The Reef router.                                                          *)

reefMethodHandlers ==
    {"eth_accounts", "eth_blockNumber", "eth_call", "eth_chainId",
     "eth_estimateGas", "eth_gasPrice", "eth_getBalance", "eth_getBlockByNumber",
     "eth_getCode", "eth_getFilterChanges", "eth_getTransactionByHash",
     "eth_getTransactionReceipt", "eth_newBlockFilter", "eth_sendTransaction",
     "eth_syncing", "net_version", "web3_clientVersion"}

\* eth_blockNumber on Reef: WalletWrapper.getBlockNumber.
ReefGetBlockNumber(s) ==
    /\ adapter = "reef"
    /\ reqs[s].pc = "routing"
    /\ reqs[s].method \in reefMethodHandlers \cap {"eth_blockNumber"}
    /\ \/ Settle(s, Outcome(Hex(chain.head)))
       \/ \E e \in Failures : Settle(s, Throws(e))
    /\ Log(s, [call |-> "eth_blockNumber"])
    /\ UNCHANGED <<adapter, cfg, slots, responses, floating, uncaught,
                   lastKnownBlock, lastKnownEpochNumber, wallets, chain, cin, cout>>

\* The transaction getTransactionByHash builds, and the receipt
\* getTransactionReceipt builds with the `logs` the second query answered
\* (Undefined when the answer holds no data).
ReefTransaction(x, nonce) ==
    [t |-> "object", hash |-> Str("0xh"), nonce |-> Hex(nonce), of |-> x]
ReefReceipt(x, logs) ==
    [t |-> "object", transactionHash |-> Str("0xh"),
     status |-> IF x.status = "success" THEN Hex(1) ELSE Hex(0),
     logs |-> logs, of |-> x]

\* getTransactionByHash / getTransactionReceipt: the query by hash.  The index
\* answers extrinsic[0], Undefined when the hash is unknown; `events` are the
\* evm events the query selects.  Without a
\* finalized extrinsic the handler returns null; extrinsic.events[0]! on an
\* extrinsic with no evm event throws inside the try block of
\* getTransactionByHash before anything else is asked.
ReefFindExtrinsic(s) ==
    /\ adapter = "reef"
    /\ reqs[s].pc = "routing"
    /\ reqs[s].method \in
          reefMethodHandlers \cap {"eth_getTransactionByHash", "eth_getTransactionReceipt"}
    /\ \/ \E x \in {Undefined} \cup [t : {"extrinsic"}, finalized : BOOLEAN,
                                      events : 0..1, status : {"success"}] :
             /\ IF x = Undefined \/ ~x.finalized
                THEN Settle(s, Outcome(Null))
                ELSE IF reqs[s].method = "eth_getTransactionByHash" /\ x.events = 0
                THEN Settle(s, Outcome(Null))
                ELSE reqs' = [reqs EXCEPT
                        ![s].tx = x,
                        ![s].pc = IF reqs[s].method = "eth_getTransactionByHash"
                                  THEN "reefnonce" ELSE "reeflogs"]
             /\ Log(s, [call |-> "extrinsic", ok |-> TRUE, answer |-> x])
       \/ /\ \E e \in Failures : Settle(s, Throws(e))
          /\ Log(s, [call |-> "extrinsic", ok |-> FALSE, answer |-> Undefined])
    /\ UNCHANGED <<adapter, cfg, slots, responses, floating, uncaught,
                   lastKnownBlock, lastKnownEpochNumber, wallets, chain, cin, cout>>

\* getTransactionByHash: provider.getTransactionCount(from, block.hash), inside
\* the try block.
ReefTransactionNonce(s) ==
    /\ adapter = "reef"
    /\ reqs[s].pc = "reefnonce"
    /\ \/ /\ Settle(s, Outcome(ReefTransaction(reqs[s].tx, chain.nonce[1])))
          /\ Log(s, [call |-> "eth_getTransactionCount", ok |-> TRUE, answer |-> Undefined])
       \/ /\ Settle(s, Outcome(Null))
          /\ Log(s, [call |-> "eth_getTransactionCount", ok |-> FALSE, answer |-> Undefined])
    /\ UNCHANGED <<adapter, cfg, slots, responses, floating, uncaught,
                   lastKnownBlock, lastKnownEpochNumber, wallets, chain, cin, cout>>

\* getTransactionReceipt: the query of the logs, outside the try block, and
\* the receipt; extrinsic.events[0]! on an extrinsic with no evm event throws
\* inside it.
ReefQueryLogs(s) ==
    /\ adapter = "reef"
    /\ reqs[s].pc = "reeflogs"
    /\ \/ \E logs \in {Undefined} \cup {Array([i \in 1..n |-> Hex(i - 1)]) : n \in 0..MaxLogs} :
             /\ Settle(s, IF reqs[s].tx.events = 0 THEN Outcome(Null)
                          ELSE Outcome(ReefReceipt(reqs[s].tx, logs)))
             /\ Log(s, [call |-> "logs", ok |-> TRUE, answer |-> logs])
       \/ /\ \E e \in Failures : Settle(s, Throws(e))
          /\ Log(s, [call |-> "logs", ok |-> FALSE, answer |-> Undefined])
    /\ UNCHANGED <<adapter, cfg, slots, responses, floating, uncaught,
                   lastKnownBlock, lastKnownEpochNumber, wallets, chain, cin, cout>>

\* getSignerFromEvmAddress(tx.from || ''): the index of the signer whose
\* address matches whatever the letter case, 0 when the function throws.
getSignerFromEvmAddress(ws, from) ==
    LET found == IF ~Truthy(from) THEN {}
                 ELSE {ix \in 1..Len(ws) : ToLowerCase(ws[ix]) = ToLowerCase(from)}
    IN  IF found = {} THEN 0 ELSE CHOOSE ix \in found : \A other \in found : ix <= other

\* sendTransaction of the Reef wrapper up to the signer: composeTransaction
\* copies the members (nothing is estimated or checked) and the signer of
\* tx.from is looked for.
ReefFindSigner(s) ==
    /\ adapter = "reef"
    /\ reqs[s].pc = "routing"
    /\ reqs[s].method \in reefMethodHandlers \cap {"eth_sendTransaction"}
    /\ LET params == Arg(HandlerArgs(reqs[s].params), 2)
           tx == [from |-> params.from, to |-> params.to, value |-> params.value,
                  data |-> params.data, nonce |-> params.nonce,
                  gasLimit |-> params.gas, gasPrice |-> params.gasPrice]
           ix == getSignerFromEvmAddress(wallets, tx.from)
       IN  IF ix = 0 THEN Settle(s, Throws(UnknownSigner))
           ELSE reqs' = [reqs EXCEPT ![s].tx = [tx EXCEPT !.from = wallets[ix]],
                                     ![s].wallet = ix,
                                     ![s].pc = "reefsend"]
    /\ Log(s, [call |-> "getSignerFromEvmAddress"])
    /\ UNCHANGED <<adapter, cfg, slots, responses, floating, uncaught,
                   lastKnownBlock, lastKnownEpochNumber, wallets, chain, cin, cout>>

\* sendTransaction of the Reef wrapper from the signer on: the nonce when the
\* request has none, then signer.sendTransaction(tx).
ReefSendTransaction(s) ==
    /\ adapter = "reef"
    /\ reqs[s].pc = "reefsend"
    /\ LET ix == reqs[s].wallet
           tx == [reqs[s].tx EXCEPT
                     !.nonce = IF ~Truthy(@) THEN Num(chain.nonce[ix]) ELSE @]
           signedTx == SignedTx(ix, tx)
       IN  \/ /\ ~Truthy(reqs[s].tx.nonce)
              /\ \E e \in Failures : Settle(s, Throws(e))
              /\ Log(s, [call |-> "eth_getTransactionCount"])
              /\ UNCHANGED chain
           \/ /\ Accepts(chain, ix, tx)
              /\ chain' = Mined(chain, ix)
              /\ Settle(s, Outcome(TxHash(signedTx)))
              /\ Log(s, [call |-> "sendTransaction", signedTx |-> signedTx])
           \/ /\ \E e \in Failures : Settle(s, Throws(e))
              /\ Log(s, [call |-> "sendTransaction", signedTx |-> signedTx])
              /\ UNCHANGED chain
    /\ UNCHANGED <<adapter, cfg, slots, responses, floating, uncaught,
                   lastKnownBlock, lastKnownEpochNumber, wallets, cin, cout>>

\* A method outside the table is refused.
ReefUnsupported(s) ==
    /\ adapter = "reef"
    /\ reqs[s].pc = "routing"
    /\ reqs[s].method \notin reefMethodHandlers
    /\ Settle(s, Throws(GatewayThrowNoErrorMember("Unsupported method")))
    /\ UNCHANGED <<adapter, cfg, slots, responses, calls, floating, uncaught,
                   lastKnownBlock, lastKnownEpochNumber, wallets, chain, cin, cout>>

-----------------------------------------------------------------------------
(* The answer.                                                               *)

\* A router that hands every result over as the handler returned it.
Response_Untranslated(ad, rq) ==
    IF rq.outcome.ok THEN Envelope(rq.id, rq.outcome.value, Undefined)
    ELSE Envelope(rq.id, Undefined, ErrorMember(ad, rq.outcome.exc))

\* The response object every router builds from the handler's outcome.
Response(ad, rq) ==
    LET o == rq.outcome
    IN  IF o.ok
        THEN Envelope(rq.id,
                 IF ad = "conflux" /\ StartsWithEth(rq.method) /\ Truthy(o.value)
                    /\ o.value.t \in {"array", "object"}
                 THEN translateCfxResponseObject(o.value) ELSE o.value,
                 Undefined)
        ELSE Envelope(rq.id, Undefined, ErrorMember(ad, o.exc))

\* res.status(200).json(response)
Send(s, response) ==
    responses' = [responses EXCEPT ![s] = Append(@, response)]

\* The handler's promise has settled: the router builds the response and sends it.
Respond(s) ==
    /\ reqs[s].pc = "respond"
    /\ Send(s, Response(adapter, reqs[s]))
    /\ reqs' = [reqs EXCEPT ![s].pc = "done"]
    /\ UNCHANGED <<adapter, cfg, slots, calls, floating, uncaught,
                   lastKnownBlock, lastKnownEpochNumber, wallets, chain, cin, cout>>

\* The runtime the gateway is shipped on ends the process on a rejection that
\* nothing handles: the requests in flight are never answered and no further
\* request is accepted.  (Older runtimes only print a warning: the step is
\* not forced.)
ProcessExit ==
    /\ uncaught # {}
    /\ \E s \in slots : reqs[s].pc \notin {"done", "aborted", "down"}
    /\ reqs' = [s \in slots |->
                 IF reqs[s].pc = "done" THEN reqs[s]
                 ELSE [reqs[s] EXCEPT !.pc = IF @ = "idle" THEN "down" ELSE "aborted"]]
    /\ floating' = {}
    /\ UNCHANGED <<adapter, cfg, slots, responses, calls, uncaught,
                   lastKnownBlock, lastKnownEpochNumber, wallets, chain, cin, cout>>

-----------------------------------------------------------------------------
(* The gateway: one router, started on its backend, serving one request.     *)

Init ==
    /\ adapter \in Adapters
    /\ cfg \in IF adapter = "conflux" THEN CfxConfigs ELSE RouterConfigs
    /\ slots = {1}
    /\ reqs = [s \in slots |-> IdleRequest]
    /\ responses = [s \in slots |-> <<>>]
    /\ calls = [s \in slots |-> <<>>]
    /\ floating = {}
    /\ uncaught = {}
    /\ lastKnownBlock = 0
    /\ lastKnownEpochNumber = 0
    /\ wallets = BuildWalletSet(SeedWallets, KeyWallets)
    /\ \E h \in 0..MaxHead, n \in 0..MaxNonce :
          chain = [head |-> h, nonce |-> [i \in DOMAIN wallets |-> n]]
    /\ cin = [method |-> "", params |-> Undefined, priceAns |-> NoAnswer,
              limitAns |-> NoAnswer]
    /\ cout = [state |-> "idle"]

Next ==
    \/ \E s \in slots : Receive(s)
    \/ \E s \in slots : getAccounts(s)
    \/ \E s \in slots : EthSign(s)
    \/ \E s \in slots : getBlockByNumber(s)
    \/ \E s \in slots : Forward(s)
    \/ \E s \in slots : Compose(s)
    \/ \E s \in slots : ResolveSigner(s)
    \/ \E s \in slots : FetchNonce(s)
    \/ \E s \in slots : SignAndSend(s)
    \/ \E s \in slots : ProviderGetBlockNumber(s)
    \/ \E s \in slots : CheckRollbacksForCall(s)
    \/ \E s \in slots : ProviderCall(s)
    \/ \E s \in slots : SettleRollbackCheck(s)
    \/ \E s \in slots : CfxGetAccounts(s)
    \/ \E s \in slots : CfxSign(s)
    \/ \E s \in slots : CfxUnhandled(s)
    \/ \E s \in slots : CfxForward(s)
    \/ \E s \in slots : CfxGetEpochNumber(s)
    \/ \E s \in slots : CfxCheckRollbacks(s)
    \/ \E s \in slots : CfxCall(s)
    \/ \E s \in slots : CfxPrepare(s)
    \/ \E s \in slots : CfxNextNonce(s)
    \/ \E s \in slots : CfxSignAndSend(s)
    \/ \E s \in slots : ReefGetBlockNumber(s)
    \/ \E s \in slots : ReefFindExtrinsic(s)
    \/ \E s \in slots : ReefTransactionNonce(s)
    \/ \E s \in slots : ReefQueryLogs(s)
    \/ \E s \in slots : ReefFindSigner(s)
    \/ \E s \in slots : ReefSendTransaction(s)
    \/ \E s \in slots : ReefUnsupported(s)
    \/ \E s \in slots : Respond(s)
    \/ ProcessExit
    \/ BackendAdvance

Spec == Init /\ [][Next]_vars

-----------------------------------------------------------------------------
(* Properties of the routers.                                                *)

\* The slots whose request has been answered, and the answer.
Answered == {s \in slots : reqs[s].pc = "done"}
Answer(s) == responses[s][Len(responses[s])]
\* The slots whose handler ended by throwing, and what it threw.
Raised == {s \in Answered : ~reqs[s].outcome.ok}
Thrown(s) == reqs[s].outcome.exc
Present(member) == member # Undefined

\* C1 as stated: every accepted request, whichever path it takes, gets exactly
\* one response envelope, and the envelope carries the request's id.
C1_Original ==
    \A s \in slots :
        /\ Len(responses[s]) <= 1
        /\ \A i \in 1..Len(responses[s]) : responses[s][i].id = reqs[s].id
        /\ reqs[s].pc \in {"done", "aborted"} => Len(responses[s]) = 1

\* C2 as stated: every response envelope holds exactly one of `result` and
\* `error`, never both and never neither.
C2_Original ==
    \A s \in slots : \A i \in 1..Len(responses[s]) :
        Present(responses[s][i].result) # Present(responses[s][i].error)

\* C3 as stated: no failure raised while a request is handled, the rollback
\* check that eth_sendTransaction starts without awaiting included, escapes the
\* router's catch clause.
C3_Original == uncaught = {}

\* The adapters whose router handles eth_sign with the wallet.
SignsLocally == {"ethers", "conflux"}

\* C6 as stated: eth_sign(a, m) returns the signature of m by the wallet owning
\* a for every managed address a in any letter case, and fails, producing no
\* signature, for every other address.
C6_Original ==
    \A s \in Answered :
        (adapter \in SignsLocally /\ reqs[s].method = "eth_sign") =>
            LET a == reqs[s].params[1]
                m == reqs[s].params[2]
            IN  IF IsManaged(a)
                THEN /\ ~Present(Answer(s).error)
                     /\ \E ix \in DOMAIN wallets :
                           /\ ToLowerCase(wallets[ix]) = ToLowerCase(a)
                           /\ Answer(s).result = Signature(ix, m)
                ELSE /\ Present(Answer(s).error)
                     /\ ~Present(Answer(s).result)
                     /\ Thrown(s) = UnknownSigner

\* C7 as stated: a signing request naming an address outside the wallet set is
\* answered with an error whose code is -32000.
C7_Original ==
    \A s \in Raised :
        Thrown(s) = UnknownSigner =>
            /\ Present(Answer(s).error)
            /\ Answer(s).error.code = Num(-32000)

EstimatedPriceExceeds ==
    GatewayThrow(-32099, "Estimated gas price exceeds threshold")

\* C8 as stated: an eth_sendTransaction refused because the estimated gas price
\* exceeds the threshold is answered with error code -32099 and a message
\* containing "Estimated gas price exceeds threshold".
C8_Original ==
    \A s \in Raised :
        (reqs[s].method = "eth_sendTransaction" /\ Thrown(s) = EstimatedPriceExceeds) =>
            /\ Present(Answer(s).error)
            /\ Answer(s).error.code = Num(-32099)
            /\ Answer(s).error.message.s = "Estimated gas price exceeds threshold"

\* The body the catch clause finds on the exception or on exception.error.
OwnBody(e) ==
    IF Truthy(e.body) THEN e.body
    ELSE IF Truthy(e.error) /\ Truthy(e.error.body) THEN e.error.body
    ELSE Undefined
HasReportedError(e) ==
    /\ OwnBody(e).t = "jsontext"
    /\ Present(OwnBody(e).obj.error)
ReasonOf(e) ==
    IF Truthy(e.reason) THEN e.reason
    ELSE IF Truthy(e.error) /\ Truthy(e.error.reason) THEN e.error.reason
    ELSE e.str

\* C9 as stated: an error carrying its own code, message and data reaches the
\* client with the same code, message and data; a failure with no code is
\* answered with code -32015 and its stringification in error.data.
C9_Original ==
    \A s \in Raised :
        LET e == Thrown(s)
            err == Answer(s).error
        IN  /\ (Truthy(e.code) /\ HasReportedError(e)) => err = OwnBody(e).obj.error
            /\ (Truthy(e.code) /\ OwnBody(e) = Undefined /\ Present(e.data)) =>
                   err = ErrorObj(e.code, e.message, e.data)
            /\ ~Truthy(e.code) =>
                   /\ Present(err)
                   /\ err.code = Num(-32015)
                   /\ err.data = e.str

\* C9: the error the backend reported in the body of a coded failure reaches the
\* client unchanged; a coded failure with no body keeps its code and data, its
\* message being the quoted reason (or stringification) of the failure; a
\* failure with no code is answered with code -32015, error.data being the
\* failure's own `data` member and the stringification going to error.message
\* when there is no data (on Reef: the stringification as message, the failure
\* object as data).
C9_ErrorMarshalling ==
    \A s \in Raised :
        LET e == Thrown(s)
            err == Answer(s).error
        IN  /\ (Truthy(e.code) /\ HasReportedError(e)) => err = OwnBody(e).obj.error
            /\ (Truthy(e.code) /\ OwnBody(e) = Undefined) =>
                   err = ErrorObj(e.code, Quoted(ReasonOf(e)), e.data)
            /\ ~Truthy(e.code) =>
                   /\ Present(err)
                   /\ err.code = Num(-32015)
                   /\ IF adapter = "reef"
                      THEN err.message = e.str /\ err.data = AsJsonObject(e)
                      ELSE /\ err.data = e.data
                           /\ err.message = IF Truthy(e.data) THEN Str("Execution error")
                                            ELSE e.json

\* A failure with data and no code has been answered by a router other than
\* Reef's: code -32015, the data passed on.
C9_Witness ==
    \E s \in Raised :
        /\ adapter # "reef"
        /\ ~Truthy(Thrown(s).code)
        /\ Truthy(Thrown(s).data)
        /\ Answer(s).error = ErrorObj(Num(-32015), Str("Execution error"),
                                      Thrown(s).data)

SignerResolutions == {"getWalletByAddress", "getAccount"}
NonceRequests == {"eth_getTransactionCount", "cfx_getNextNonce"}
Submissions == {"eth_sendRawTransaction", "cfx_sendRawTransaction", "sendTransaction"}

\* C10 as stated: eth_sendTransaction asks the backend for a nonce only after
\* the signing wallet has been resolved and only when the request carries no
\* nonce; a nonce supplied by the client is the nonce of the signed transaction.
C10_Original ==
    \A s \in slots :
        (reqs[s].method = "eth_sendTransaction" /\ adapter \in Generic \cup {"conflux"}) =>
            LET log == calls[s]
                p == reqs[s].params[1]
            IN  /\ \A i \in DOMAIN log :
                      log[i].call \in NonceRequests =>
                          /\ ~Truthy(p.nonce)
                          /\ \E j \in 1..(i - 1) : log[j].call \in SignerResolutions
                /\ \A i \in DOMAIN log :
                      (log[i].call \in Submissions /\ Truthy(p.nonce)) =>
                          log[i].signedTx.tx.nonce = p.nonce

-----------------------------------------------------------------------------
(* Two requests in flight on the generic router: every await of a handler is *)
(* a point where the other request's handler may run.                        *)

InitPair ==
    /\ adapter = "ethers"
    /\ cfg \in {c \in RouterConfigs : ~c.estimateGasPrice}
    /\ slots = {1, 2}
    /\ reqs = [s \in slots |-> IdleRequest]
    /\ responses = [s \in slots |-> <<>>]
    /\ calls = [s \in slots |-> <<>>]
    /\ floating = {}
    /\ uncaught = {}
    /\ lastKnownBlock = 0
    /\ lastKnownEpochNumber = 0
    /\ wallets = BuildWalletSet(SeedWallets, KeyWallets)
    /\ \E h \in 0..MaxHead, n \in 0..MaxNonce :
          chain = [head |-> h, nonce |-> [i \in DOMAIN wallets |-> n]]
    /\ cin = [method |-> "", params |-> Undefined, priceAns |-> NoAnswer,
              limitAns |-> NoAnswer]
    /\ cout = [state |-> "idle"]

NextPair ==
    \/ \E s \in slots : Receive(s)
    \/ \E s \in slots : Compose(s)
    \/ \E s \in slots : ResolveSigner(s)
    \/ \E s \in slots : FetchNonce(s)
    \/ \E s \in slots : SignAndSend(s)
    \/ \E s \in slots : ProviderGetBlockNumber(s)
    \/ \E s \in slots : CheckRollbacksForCall(s)
    \/ \E s \in slots : ProviderCall(s)
    \/ \E s \in slots : SettleRollbackCheck(s)
    \/ \E s \in slots : Respond(s)
    \/ ProcessExit
    \/ BackendAdvance

SpecPair == InitPair /\ [][NextPair]_vars

\* The eth_sendTransaction requests of wallet ix that left the nonce to the
\* gateway and hold a transaction ready to be signed.
AutoNonceReady(ix) ==
    {s \in slots : /\ reqs[s].method = "eth_sendTransaction"
                   /\ reqs[s].pc = "sign"
                   /\ reqs[s].wallet = ix
                   /\ ~Truthy(reqs[s].params[1].nonce)}

\* C11: nonce acquisition is not serialized per address: two concurrent
\* eth_sendTransaction requests of one wallet that both omit the nonce and have
\* both fetched it before either was submitted hold the same nonce, so both
\* transactions get signed with it.
C11_NoNonceSerialization ==
    \A ix \in DOMAIN wallets : \A s \in AutoNonceReady(ix), t \in AutoNonceReady(ix) :
        reqs[s].tx.nonce = reqs[t].tx.nonce

\* The transactions slot s has signed and handed to the backend.
SignedBy(s) ==
    {calls[s][i].signedTx : i \in {j \in DOMAIN calls[s] : calls[s][j].call \in Submissions}}

\* Both requests omitted the nonce, and both transactions have been signed by
\* the same wallet with the same nonce.
C11_Witness ==
    /\ \A s \in {1, 2} : /\ s \in slots
                         /\ reqs[s].method = "eth_sendTransaction"
                         /\ ~Truthy(reqs[s].params[1].nonce)
    /\ \E x \in SignedBy(1), y \in SignedBy(2) :
          x.by = y.by /\ x.tx.nonce = y.tx.nonce


\* Entries of slot s's log that are requests to the backend for an eth_call.
CallsAt(s) == {i \in DOMAIN calls[s] : calls[s][i].call = "eth_call"}
HeadsAt(s) == {i \in DOMAIN calls[s] : calls[s][i].call = "eth_blockNumber"}

BoundToOwnHead(s) ==
    \A i \in CallsAt(s) :
        \E j \in HeadsAt(s) :
            /\ j < i
            /\ calls[s][j].block.t = "number"
            /\ calls[s][i].blockTag = Num(calls[s][j].block.n - cfg.interleaveBlocks)

Unbound(s) ==
    /\ HeadsAt(s) = {}
    /\ \A i \in CallsAt(s) : calls[s][i].blockTag = Undefined

\* A step of an eth_call handler running with interleaveBlocks = 0.
UnboundCallStep(s) ==
    /\ adapter \in Generic
    /\ cfg.interleaveBlocks = 0
    /\ reqs[s].method = "eth_call"
    /\ reqs'[s] # reqs[s]

\* C12: on the generic adapter with interleaveBlocks > 0 every eth_call goes to
\* the backend bound to the block (head answered to this very request's
\* checkRollbacks) - interleaveBlocks, whatever other requests learn meanwhile;
\* with interleaveBlocks = 0 the request asks for no block number, goes out
\* without a block tag, and none of its steps changes lastKnownBlock.
C12_CallBlockBinding ==
    /\ [](\A s \in slots :
            (adapter \in Generic /\ reqs[s].method = "eth_call") =>
                IF cfg.interleaveBlocks > 0 THEN BoundToOwnHead(s) ELSE Unbound(s))
    /\ [][\A s \in slots : UnboundCallStep(s) => lastKnownBlock' = lastKnownBlock]_vars

\* An eth_call went out bound to the head its own checkRollbacks saw although
\* the adapter has since learnt of another head.
C12_Witness ==
    /\ cfg.interleaveBlocks > 0
    /\ \E s \in slots :
          /\ reqs[s].method = "eth_call"
          /\ CallsAt(s) # {}
          /\ \A i \in CallsAt(s) :
                calls[s][i].blockTag # Num(lastKnownBlock - cfg.interleaveBlocks)

\* The method after the router's rewrite, the params after its translation, and
\* the handler table of the router.
Rewritten(s) ==
    IF adapter = "conflux" THEN dictionaryEthCfx(reqs[s].method) ELSE reqs[s].method
Translated(s) ==
    IF adapter = "conflux" THEN TranslateParams(cfg, reqs[s].method, reqs[s].params)
    ELSE reqs[s].params
Registered ==
    CASE adapter = "conflux" -> rpcMethodHandlers
      [] adapter = "reef" -> reefMethodHandlers
      [] OTHER -> Handlers(adapter)
Unregistered == {s \in Answered : Rewritten(s) \notin Registered}
ForwardedAsIs(s) == calls[s] = <<[call |-> Rewritten(s), params |-> Translated(s)]>>

-----------------------------------------------------------------------------
(* The translators of the Conflux router, run on their own: the params of a  *)
(* request through its rpcParamsHandlers entry, a result through             *)
(* translateCfxResponseObject, once and once more.                           *)

TranslatorConfigs ==
    {[c EXCEPT !.epochLabel = l] :
        c \in CfxConfigs, l \in {"latest_state", "latest_confirmed"}}

\* What a client may put where a tag is expected.
TagValues == Tags \cup {EmptyString, Null, Num(1)}

TranslatorTxParams == {p \in ConcurrentTxParams : p.maxFeePerGas = Undefined}

TxAndTagMethods == {"eth_call", "eth_estimateGas", "eth_sendTransaction"}
AddrAndTagMethods == {"eth_getBalance", "eth_getCode", "eth_getTransactionCount"}

TranslatorRequests ==
    {Request(m, <<p>>) : m \in TxAndTagMethods, p \in TranslatorTxParams}
    \cup {Request(m, <<p, tag>>) :
            m \in TxAndTagMethods, p \in TranslatorTxParams, tag \in TagValues}
    \cup {Request(m, <<Addr(<<"a", "b">>)>>) : m \in AddrAndTagMethods}
    \cup {Request(m, <<Addr(<<"a", "b">>), tag>>) :
            m \in AddrAndTagMethods, tag \in TagValues}
    \cup {Request("eth_getBlockByNumber", <<>>)}
    \cup {Request("eth_getBlockByNumber", <<tag, Bool(FALSE)>>) : tag \in TagValues}
    \cup {Request("eth_sign", <<Addr(<<"a", "b">>), Str("pending")>>),
          Request("eth_getStorageAt", <<Addr(<<"a", "b">>), Hex(0), Latest>>)}

\* The values a node, or a handler of the wrapper, reports as a status.
StatusValues == {Num(0), Num(1), Str("0"), Str("1"), Hex(0), Hex(1)}

\* An Ethereum receipt with n logs, as an Ethereum client expects it.
EthReceipt(status, n) ==
    Obj(<<"transactionHash", "transactionIndex", "blockNumber", "status", "logs">>,
        [transactionHash |-> Str("0xh"), transactionIndex |-> Hex(0),
         blockNumber |-> Hex(1), status |-> status,
         logs |-> Array([i \in 1..n |->
                     Obj(<<"data", "logIndex">>,
                         [data |-> Str("0x"), logIndex |-> Hex(i - 1)])])])

\* The results handed to the response translator: objects that hold a status
\* under either name or under both, Conflux receipts and blocks, and Ethereum
\* receipts.
\* A receipt of the Conflux node with n logs, its keys in the order the node
\* put them.
CfxReceiptWith(keys, n) ==
    Obj(keys,
        [transactionHash |-> Str("0xh"), index |-> Hex(2), epochNumber |-> Hex(1),
         blockHash |-> Str("0xb"),
         logs |-> Array([i \in 1..n |-> Obj(<<"data">>, [data |-> Str("0x")])])])

ResponseObjects ==
    {Obj(<<"outcomeStatus">>, [outcomeStatus |-> v]) : v \in StatusValues}
    \cup {Obj(<<"status">>, [status |-> v]) : v \in StatusValues}
    \cup {Obj(ks, [outcomeStatus |-> v, status |-> w]) :
             ks \in {<<"outcomeStatus", "status">>, <<"status", "outcomeStatus">>},
             v \in StatusValues, w \in StatusValues}
    \cup {EthReceipt(v, n) : v \in {Hex(0), Hex(1)}, n \in 0..MaxLogs}
    \cup {CfxReceiptWith(ks, n) :
             ks \in {<<"transactionHash", "index", "epochNumber", "blockHash", "logs">>,
                     <<"transactionHash", "logs", "index", "epochNumber", "blockHash">>,
                     <<"logs", "blockHash", "epochNumber", "index", "transactionHash">>},
             n \in 0..MaxLogs}
    \cup UNION {CfxReceipts([head |-> h]) : h \in 0..MaxHead}
    \cup {CfxBlock([head |-> h]) : h \in 0..MaxHead}
    \cup {Array(<<translateEthAddress(Addr(<<"a", "b">>))>>)}

TranslatorInit ==
    /\ adapter = "conflux"
    /\ cfg \in TranslatorConfigs
    /\ slots = {}
    /\ reqs = <<>>
    /\ responses = <<>>
    /\ calls = <<>>
    /\ floating = {}
    /\ uncaught = {}
    /\ lastKnownBlock = 0
    /\ lastKnownEpochNumber = 0
    /\ wallets = BuildWalletSet(SeedWallets, KeyWallets)
    /\ chain = [head |-> 0, nonce |-> <<0, 0>>]
    /\ cin \in {[kind |-> "params", method |-> rq.method, params |-> rq.params] :
                   rq \in TranslatorRequests}
               \cup {[kind |-> "result", obj |-> o] : o \in ResponseObjects}
    /\ cout = [state |-> "pending"]

\* request.params = await this.rpcParamsHandlers[method](request.params, socket)
TranslateRequestParams ==
    /\ cout.state = "pending"
    /\ cin.kind = "params"
    /\ cout' = [state |-> "translated",
                params |-> TranslateParams(cfg, cin.method, cin.params)]
    /\ UNCHANGED <<adapter, cfg, slots, reqs, responses, calls, floating, uncaught,
                   lastKnownBlock, lastKnownEpochNumber, wallets, chain, cin>>

\* result = this.translateCfxResponseObject(result, socket)
TranslateResponse ==
    /\ cout.state = "pending"
    /\ cin.kind = "result"
    /\ cout' = [state |-> "translated", obj |-> translateCfxResponseObject(cin.obj)]
    /\ UNCHANGED <<adapter, cfg, slots, reqs, responses, calls, floating, uncaught,
                   lastKnownBlock, lastKnownEpochNumber, wallets, chain, cin>>

\* A translated object is the result of another eth_ request.
TranslateAgain ==
    /\ cout.state = "translated"
    /\ cin.kind = "result"
    /\ cout' = [state |-> "retranslated", first |-> cout.obj,
                obj |-> translateCfxResponseObject(cout.obj)]
    /\ UNCHANGED <<adapter, cfg, slots, reqs, responses, calls, floating, uncaught,
                   lastKnownBlock, lastKnownEpochNumber, wallets, chain, cin>>

TranslatorNext == TranslateRequestParams \/ TranslateResponse \/ TranslateAgain

SpecTranslator == TranslatorInit /\ [][TranslatorNext]_vars

\* The position of the tag in the params of a method, as the client counts
\* them from 0.
TagPosition(method) ==
    CASE method \in TxAndTagMethods \cup AddrAndTagMethods -> 1
      [] method = "eth_getBlockByNumber" -> 0

\* C14: the tag translator of the Conflux router maps "latest" to the
\* configured epoch label, "pending" to "latest_checkpoint" and leaves every
\* other value alone; it is applied to params[1] of eth_call, eth_estimateGas,
\* eth_sendTransaction, eth_getBalance, eth_getCode and eth_getTransactionCount
\* and to params[0] of eth_getBlockByNumber.
C14_TagTranslation ==
    (cin.kind = "params" /\ cout.state = "translated"
        /\ cin.method \in TxAndTagMethods \cup AddrAndTagMethods \cup {"eth_getBlockByNumber"}) =>
        LET at == TagPosition(cin.method) + 1
        IN  /\ Len(cout.params) = Len(cin.params)
            /\ at <= Len(cin.params) =>
                  cout.params[at] =
                      IF cin.params[at] = Str("latest") THEN Str(cfg.epochLabel)
                      ELSE IF cin.params[at] = Str("pending") THEN Str("latest_checkpoint")
                      ELSE cin.params[at]

\* eth_getBalance(address, "pending") left the translator asking for
\* "latest_checkpoint".
C14_Witness ==
    /\ cin.kind = "params"
    /\ cin.method = "eth_getBalance"
    /\ cout.state = "translated"
    /\ Len(cin.params) = 2
    /\ cin.params[2] = Str("pending")
    /\ cout.params[2] = Str("latest_checkpoint")

\* The read-only requests of the Conflux router, the backend requests that
\* execute them, and the epoch such a backend request names.
CfxReadOnly == {"eth_call", "eth_getBalance", "eth_getCode", "eth_getTransactionCount"}
CfxReads == {"cfx_call", "cfx_getBalance", "cfx_getCode", "cfx_getNextNonce"}
CallerTag(s) == IF Len(reqs[s].params) >= 2 THEN reqs[s].params[2] ELSE Undefined
ExecutedAt(entry) ==
    IF entry.call = "cfx_call" THEN entry.epoch
    ELSE IF Len(entry.params) >= 2 THEN entry.params[2] ELSE Undefined

\* C15 as stated: a read-only request on Conflux (eth_call, eth_getBalance,
\* eth_getCode, eth_getTransactionCount) is executed at the epoch or tag the
\* caller named ("pending" being Conflux's "latest_checkpoint"), and at the
\* configured default label when, and only when, the caller named none or
\* "latest".
C15_Original ==
    adapter = "conflux" =>
        \A s \in slots :
            reqs[s].method \in CfxReadOnly =>
                \A i \in DOMAIN calls[s] :
                    calls[s][i].call \in CfxReads =>
                        ExecutedAt(calls[s][i]) =
                            IF CallerTag(s) \in {Undefined, Latest} THEN Str(cfg.epochLabel)
                            ELSE IF CallerTag(s) = Str("pending") THEN Str("latest_checkpoint")
                            ELSE CallerTag(s)


\* The objects of a translated result: the result and the objects it holds.
StatusKeys == {"status", "outcomeStatus"}
Successful == {Num(0), Str("0"), Hex(0)}
HeldStatuses(o) ==
    IF o.t = "object"
    THEN {Get(o, k) : k \in StatusKeys \cap DOMAIN o.at}
    ELSE {}

\* C16 as stated: after the response translator an object whose
\* `outcomeStatus` or `status` is 0, "0" or "0x0" has status "0x1", one that
\* holds any other number or string there has status "0x0", and
\* `outcomeStatus` is left as it was.
C16_Original ==
    (cin.kind = "result" /\ cout.state = "translated" /\ cin.obj.t = "object") =>
        /\ \A v \in HeldStatuses(cin.obj) :
              (v.t = "number" \/ IsString(v)) =>
                  Get(cout.obj, "status") = IF v \in Successful THEN Hex(1) ELSE Hex(0)
        /\ Get(cout.obj, "outcomeStatus") = Get(cin.obj, "outcomeStatus")


\* An object as an Ethereum client expects it: no Conflux address and none of
\* the Conflux member names in it.
CfxKeys == {"epochNumber", "index", "gasUsed", "contractCreated", "stateRoot",
            "outcomeStatus"}
EthereumNative(o) ==
    /\ o.t = "object"
    /\ CfxKeys \cap DOMAIN o.at = {}
    /\ \A k \in DOMAIN o.at : o.at[k].t # "cfxaddress"

\* C17 as stated: the response translator is a fixed point on Ethereum-native
\* objects: a receipt whose status is "0x1", or an object it has translated
\* already, comes out as it went in.
C17_Original ==
    /\ (cin.kind = "result" /\ cout.state = "translated" /\ EthereumNative(cin.obj)) =>
          cout.obj = cin.obj
    /\ cout.state = "retranslated" => cout.obj = cout.first

\* The params supply both gasPrice and gas, within the thresholds.
BothSupplied ==
    /\ cin.method \in {"eth_sendTransaction", "eth_call"}
    /\ Truthy(cin.params.gasPrice) /\ Truthy(cin.params.gas)
    /\ BigNumberFrom(cin.params.gasPrice) <= cfg.defaultGasPrice
    /\ BigNumberFrom(cin.params.gas) <= cfg.defaultGasLimit

Copied == {"from", "to", "value", "data", "nonce"}
AllButLimit == Copied \cup {"chainId", "type", "gasPrice", "maxFeePerGas",
                            "maxPriorityFeePerGas"}

\* C18 as stated: with gasPrice and gas supplied within the thresholds the
\* composed transaction carries the supplied values, and composing its output
\* again returns the same transaction.
C18_Original ==
    (BothSupplied /\ cout.state = "recomposed") => cout.again = cout.r

\* C18: for params whose gasPrice and gas are both supplied and within the
\* thresholds, composeTransaction succeeds whatever the backend would answer,
\* returning from, to, value, data and nonce as supplied, gasPrice as supplied,
\* gasLimit = gas, and maxFeePerGas / maxPriorityFeePerGas as supplied when
\* they are.  Fed back as params, its output keeps every field but gasLimit
\* when the second composition succeeds; the output names the limit gasLimit,
\* not gas, so the limit is derived anew: left out when there is no `from`.
C18_SuppliedWins ==
    (BothSupplied /\ cout.state \in {"composed", "recomposed"}) =>
        LET p == cin.params
            r == cout.r
        IN  /\ r.ok
            /\ r = composeTransaction(cfg, p, NoAnswer, NoAnswer)
            /\ \A f \in Copied : r.value[f] = p[f]
            /\ r.value.gasPrice = p.gasPrice
            /\ r.value.gasLimit = p.gas
            /\ Truthy(p.maxFeePerGas) => r.value.maxFeePerGas = p.maxFeePerGas
            /\ Truthy(p.maxPriorityFeePerGas) =>
                   r.value.maxPriorityFeePerGas = p.maxPriorityFeePerGas
            /\ (cout.state = "recomposed" /\ cout.again.ok) =>
                   /\ \A f \in AllButLimit : cout.again.value[f] = r.value[f]
                   /\ ~Truthy(p.from) => cout.again.value.gasLimit = Undefined

\* A transaction composed from supplied gasPrice and gas was composed again
\* and came back with another gas limit.
C18_Witness ==
    /\ BothSupplied
    /\ cout.state = "recomposed"
    /\ Truthy(cin.params.from)
    /\ cout.r.value.gasLimit = cin.params.gas
    /\ cout.again.ok
    /\ Truthy(cout.again.value.gasLimit)
    /\ cout.again.value.gasLimit # cout.r.value.gasLimit

\* The eth_estimateGas request as it would be without the client's `gas`.
WithoutGas == [cin.params EXCEPT !.gas = Undefined]
Estimate == cout.r
NeverEchoed == Estimate = processEthEstimateGas(cfg, WithoutGas, cin.priceAns, cin.limitAns)

\* C19 as stated: eth_estimateGas discards the client's `gas`, composes the
\* remaining params and returns that transaction's gasLimit; on success the
\* answer does not depend on the client's `gas` and is never above
\* defaultGasLimit.
C19_Original ==
    cout.state = "estimated" =>
        /\ NeverEchoed
        /\ Estimate.ok =>
              /\ Estimate.value = cout.tx.value.gasLimit
              /\ BigNumberFrom(Estimate.value) <= cfg.defaultGasLimit

\* C19: eth_estimateGas on the generic adapter discards the client's `gas`,
\* composes the remaining params and returns that transaction's gasLimit, or
\* defaultGasLimit when the transaction has none (params without `from`); it
\* fails exactly when the composition fails; on success the answer is what the
\* same request without `gas` gets, and is never above defaultGasLimit.
C19_EstimateGas ==
    cout.state = "estimated" =>
        /\ NeverEchoed
        /\ Estimate.ok = cout.tx.ok
        /\ Estimate.ok =>
              /\ Estimate.value = IF Truthy(cout.tx.value.gasLimit)
                                  THEN cout.tx.value.gasLimit
                                  ELSE Num(cfg.defaultGasLimit)
              /\ Truthy(cin.params.from) => Estimate.value = cout.tx.value.gasLimit
              /\ BigNumberFrom(Estimate.value) <= cfg.defaultGasLimit

\* The client sent a gas, no `from`, and was answered defaultGasLimit, the
\* composed transaction having no gasLimit.
C19_Witness ==
    /\ cout.state = "estimated"
    /\ Truthy(cin.params.gas)
    /\ ~Truthy(cin.params.from)
    /\ Estimate.ok
    /\ cout.tx.value.gasLimit = Undefined
    /\ Estimate.value = Num(cfg.defaultGasLimit)
    /\ Estimate.value.n # cin.params.gas.n

\* The requests answered after a failure whose body is a string that is not
\* JSON.
Unparsable == {s \in Raised : OwnBody(Thrown(s)).t = "string"}

\* C20 as stated: when the body of a backend error cannot be parsed as JSON,
\* the client receives an error envelope whose `error` is an object with code
\* -32700.
C20_Original ==
    \A s \in Unparsable :
        /\ ~Present(Answer(s).result)
        /\ Answer(s).error.t = "object"
        /\ Answer(s).error.code = Num(-32700)

\* The Reef lookups by hash, and what the index answered to the request of
\* slot s: nothing usable when a query failed, the hash is unknown or the
\* block of the extrinsic is not finalized.
ReefLookups == {"eth_getTransactionByHash", "eth_getTransactionReceipt"}
LookedUp == {s \in Answered : adapter = "reef" /\ reqs[s].method \in ReefLookups}
QueryFailed(s) == \E i \in DOMAIN calls[s] : ~calls[s][i].ok
Found(s) == calls[s][1].answer
Unusable(s) == QueryFailed(s) \/ Found(s) = Undefined \/ ~Found(s).finalized

\* C21 as stated: on Reef, eth_getTransactionByHash and
\* eth_getTransactionReceipt return a non-null result only for an extrinsic
\* whose block is finalized; for an unknown hash, a non-finalized block or a
\* failed index query the result is null rather than partial data.
C21_Original ==
    \A s \in LookedUp :
        /\ Unusable(s) => Answer(s).result = Null
        /\ (Present(Answer(s).result) /\ Answer(s).result # Null) =>
              /\ Found(s) # Undefined /\ Found(s).finalized
              /\ reqs[s].method = "eth_getTransactionReceipt" =>
                    Answer(s).result.logs # Undefined

\* ---------------------------------------------------------------------------
\* The zkSync gateway serving two requests side by side: eth_accounts and
\* eth_sendTransaction, after listen() has filled the wallet set.
\* ---------------------------------------------------------------------------

InitAccounts ==
    /\ adapter = "zksync"
    /\ cfg \in {c \in RouterConfigs : ~c.estimateGasPrice}
    /\ slots = {1, 2}
    /\ reqs = [s \in slots |-> IdleRequest]
    /\ responses = [s \in slots |-> <<>>]
    /\ calls = [s \in slots |-> <<>>]
    /\ floating = {}
    /\ uncaught = {}
    /\ lastKnownBlock = 0
    /\ lastKnownEpochNumber = 0
    /\ wallets = BuildWalletSet(SeedWallets, KeyWallets)
    /\ \E h \in 0..MaxHead, n \in 0..MaxNonce :
          chain = [head |-> h, nonce |-> [i \in DOMAIN wallets |-> n]]
    /\ cin = [method |-> "", params |-> Undefined, priceAns |-> NoAnswer,
              limitAns |-> NoAnswer]
    /\ cout = [state |-> "idle"]

NextAccounts ==
    \/ \E s \in slots : Receive(s)
    \/ \E s \in slots : getAccounts(s)
    \/ \E s \in slots : Compose(s)
    \/ \E s \in slots : ResolveSigner(s)
    \/ \E s \in slots : FetchNonce(s)
    \/ \E s \in slots : SignAndSend(s)
    \/ \E s \in slots : SettleRollbackCheck(s)
    \/ \E s \in slots : Respond(s)
    \/ ProcessExit
    \/ BackendAdvance

SpecAccounts == InitAccounts /\ [][NextAccounts]_vars

\* The accounts the gateway was started with, in the order listen() loads them.
StartupAccounts == <<Addr(<<"A", "b">>), Addr(<<"c", "A">>)>>

\* C22: no request changes the wallet set: whatever else is being served,
\* eth_accounts answers the seed-phrase wallets followed by the private-key
\* wallets, and a transaction that names no sender is signed by the first of them.
C22_WalletSetFixed ==
    /\ [](/\ wallets = StartupAccounts
          /\ \A s \in Answered :
                /\ reqs[s].method = "eth_accounts" =>
                      Answer(s).result = [t |-> "array", items |-> StartupAccounts]
                /\ (reqs[s].method = "eth_sendTransaction"
                      /\ reqs[s].params[1].from = Undefined) =>
                      \A stx \in SignedBy(s) : stx.by = 1)
    /\ [][wallets' = wallets]_vars

C22_Witness ==
    /\ Answered = {1, 2}
    /\ reqs[1].method = "eth_sendTransaction"
    /\ reqs[1].params[1].from = Undefined
    /\ SignedBy(1) # {}
    /\ Present(Answer(1).result)
    /\ reqs[2].method = "eth_accounts"
    /\ Answer(2).result = [t |-> "array", items |-> StartupAccounts]

\* ---------------------------------------------------------------------------
\* Two requests side by side against a backend whose head only moves forward.
\* ---------------------------------------------------------------------------

\* The chain grows; no block is ever rolled back.
BackendGrow ==
    /\ \E h \in 0..MaxHead : h > chain.head /\ chain' = [chain EXCEPT !.head = h]
    /\ UNCHANGED <<adapter, cfg, slots, reqs, responses, calls, floating, uncaught,
                   lastKnownBlock, lastKnownEpochNumber, wallets, cin, cout>>

NextGrowing ==
    \/ \E s \in slots : Receive(s)
    \/ \E s \in slots : Compose(s)
    \/ \E s \in slots : ResolveSigner(s)
    \/ \E s \in slots : FetchNonce(s)
    \/ \E s \in slots : SignAndSend(s)
    \/ \E s \in slots : ProviderGetBlockNumber(s)
    \/ \E s \in slots : CheckRollbacksForCall(s)
    \/ \E s \in slots : ProviderCall(s)
    \/ \E s \in slots : SettleRollbackCheck(s)
    \/ \E s \in slots : Respond(s)
    \/ ProcessExit
    \/ BackendGrow

SpecGrowing == InitPair /\ [][NextGrowing]_vars

\* C23 as stated: lastKnownBlock goes down only when the backend's head went
\* down between two observations; while the head only moves forward, answers
\* arriving in any order never lower it.
C23_Original == [][lastKnownBlock' >= lastKnownBlock]_vars

\* ---------------------------------------------------------------------------
\* The Conflux gateway serving two eth_call requests side by side, after it
\* has served others: lastKnownEpochNumber holds an epoch number seen before.
\* ---------------------------------------------------------------------------

InitCfxPair ==
    /\ adapter = "conflux"
    /\ cfg \in {c \in CfxConfigs : ~c.estimateGasPrice}
    /\ slots = {1, 2}
    /\ reqs = [s \in slots |-> IdleRequest]
    /\ responses = [s \in slots |-> <<>>]
    /\ calls = [s \in slots |-> <<>>]
    /\ floating = {}
    /\ uncaught = {}
    /\ lastKnownBlock = 0
    /\ lastKnownEpochNumber \in 0..MaxHead
    /\ wallets = BuildWalletSet(SeedWallets, KeyWallets)
    /\ \E h \in 0..MaxHead, n \in 0..MaxNonce :
          chain = [head |-> h, nonce |-> [i \in DOMAIN wallets |-> n]]
    /\ cin = [method |-> "", params |-> Undefined, priceAns |-> NoAnswer,
              limitAns |-> NoAnswer]
    /\ cout = [state |-> "idle"]

NextCfxPair ==
    \/ \E s \in slots : Receive(s)
    \/ \E s \in slots : CfxGetEpochNumber(s)
    \/ \E s \in slots : CfxCheckRollbacks(s)
    \/ \E s \in slots : CfxCall(s)
    \/ \E s \in slots : Respond(s)
    \/ BackendAdvance

SpecCfxPair == InitCfxPair /\ [][NextCfxPair]_vars

\* The epoch numbers request s observed, and the cfx_call it made, as
\* positions in its log.
EpochsAt(s) ==
    {i \in DOMAIN calls[s] :
        calls[s][i].call = "cfx_epochNumber" /\ calls[s][i].epoch # Undefined}
CfxCallsAt(s) == {i \in DOMAIN calls[s] : calls[s][i].call = "cfx_call"}

\* C24 as stated: the epoch a cfx_call is executed at is the epoch number the
\* same request observed, minus confirmationEpochs, whatever other requests
\* stored in lastKnownEpochNumber meanwhile.
C24_Original ==
    \A s \in slots : \A i \in CfxCallsAt(s) :
        \E j \in EpochsAt(s) :
            /\ j < i
            /\ calls[s][i].epoch = Num(calls[s][j].epoch.n - cfg.confirmationEpochs)

\* The block numbers request s received that were below lastKnownBlock.
RollbacksAt(s) ==
    {i \in HeadsAt(s) :
        calls[s][i].block # Undefined /\ calls[s][i].block.n < calls[s][i].known}

\* C25 as stated: a block number below lastKnownBlock is traced at error level
\* when the decrease reaches interleaveBlocks and at warn level otherwise,
\* lastKnownBlock is reset to it, and the request goes on to its call.
C25_Original ==
    /\ [](\A s \in slots : \A i \in RollbacksAt(s) :
            /\ calls[s][i].trace.level =
                  IF calls[s][i].known - calls[s][i].block.n >= cfg.interleaveBlocks
                  THEN "error" ELSE "warn"
            /\ reqs[s].pc \in {"call", "respond", "done"})
    /\ [][\A s \in slots :
            (reqs[s].pc = "blocknumber" /\ reqs'[s].pc = "call") =>
                lastKnownBlock' = reqs[s].observed.n]_vars

\* The epoch numbers request s received that were below lastKnownEpochNumber.
CfxRollbacksAt(s) ==
    {i \in EpochsAt(s) : calls[s][i].epoch.n < calls[s][i].known}

\* C26 as stated: with confirmationEpochs = c > 0, a cfx_call that observes an
\* epoch e below lastKnownEpochNumber logs a warning when the decrease is
\* smaller than c and an error otherwise, goes on, leaves e in
\* lastKnownEpochNumber and is executed at e - c.
C26_Original ==
    /\ [](cfg.confirmationEpochs > 0 =>
            \A s \in slots : \A i \in CfxRollbacksAt(s) :
               LET e == calls[s][i].epoch.n
               IN  /\ calls[s][i].trace.level =
                         IF calls[s][i].known - e < cfg.confirmationEpochs
                         THEN "warn" ELSE "error"
                   /\ reqs[s].pc \in {"cfxcall", "respond", "done"}
                   /\ \A j \in CfxCallsAt(s) :
                         calls[s][j].epoch = Num(e - cfg.confirmationEpochs))
    /\ [][\A s \in slots :
            (reqs[s].pc = "epochnumber" /\ reqs'[s].pc = "cfxcall") =>
                lastKnownEpochNumber' = reqs[s].observed.n]_vars

\* A receipt of the Conflux node has been translated.
ReceiptTranslated ==
    /\ cin.kind = "result"
    /\ cout.state = "translated"
    /\ cin.obj.t = "object"
    /\ "index" \in DOMAIN cin.obj.at
    /\ "logs" \in DOMAIN cin.obj.at

\* C27 as stated: after translation every log of a receipt carries its position
\* as logIndex and the receipt's index, hash, epoch number and block hash,
\* whatever the order of the receipt's keys.
C27_Original ==
    ReceiptTranslated =>
        LET logs == Get(cout.obj, "logs").items
        IN  \A i \in DOMAIN logs :
               /\ Get(logs[i], "logIndex") = Hex(i - 1)
               /\ Get(logs[i], "transactionIndex") = Get(cin.obj, "index")
               /\ Get(logs[i], "transactionHash") = Get(cin.obj, "transactionHash")
               /\ Get(logs[i], "blockNumber") = Get(cin.obj, "epochNumber")
               /\ Get(logs[i], "blockHash") = Get(cin.obj, "blockHash")

\* composeTransaction went to getGasPrice: a sender and no gasPrice.
PriceAsked == Truthy(ComposedParams.from) /\ ~Truthy(ComposedParams.gasPrice)
PriceErrors ==
    {Str("Estimated gas price exceeds threshold"), Str("Unpredictable gas price")}

GasErrors ==
    {Str("Provided gas price exceeds threshold"),
     Str("Estimated gas price exceeds threshold"),
     Str("Provided gas limit exceeds threshold"),
     Str("Estimated gas limit exceeds threshold"),
     Str("Unpredictable gas price"), Str("Unpredictable gas limit")}
RefusedBeforeSigning(s) ==
    /\ reqs[s].method = "eth_sendTransaction"
    /\ reqs[s].pc \in {"respond", "done"}
    /\ ~reqs[s].outcome.ok
    /\ reqs[s].outcome.exc.reason \in GasErrors \cup {UnknownSigner.reason}

\* C29: in every signing adapter an eth_sendTransaction that ends in a
\* threshold error, an unpredictable-gas error or an unknown-signer error has
\* submitted nothing, and whatever is submitted is signed by a managed wallet.
C29_SignAfterChecks ==
    \A s \in slots :
        /\ RefusedBeforeSigning(s) => SignedBy(s) = {}
        /\ \A stx \in SignedBy(s) : stx.by \in DOMAIN wallets

\* C29 witness: a transaction from an address no wallet is held for has been
\* refused, its gas having been resolved, with nothing submitted.
C29_Witness ==
    \E s \in Answered :
        /\ RefusedBeforeSigning(s)
        /\ reqs[s].outcome.exc = UnknownSigner
        /\ Len(calls[s]) > 0
        /\ SignedBy(s) = {}
        /\ Present(Answer(s).error)

\* C30 as stated: every transaction the Conflux gateway signs for
\* eth_sendTransaction carries a gasPrice within the configured threshold, and
\* with estimateGasPrice on that gasPrice is the backend's estimate.
C30_Original ==
    adapter = "conflux" =>
        \A s \in slots : \A stx \in SignedBy(s) :
            /\ BigNumberFrom(stx.tx.gasPrice) <= cfg.defaultGasPrice
            /\ cfg.estimateGasPrice =>
                  \E i \in DOMAIN calls[s] :
                     /\ calls[s][i].call = "cfx_gasPrice"
                     /\ calls[s][i].answer.ok
                     /\ stx.tx.gasPrice = Hex(calls[s][i].answer.n)
=============================================================================
